---- MODULE Spec2Model ----
(***************************************************************************)
(* Sage Intacct source connector: the incremental sync engine of           *)
(* source_sage_intacct/streams.py and the protocol client of               *)
(* source_sage_intacct/client.py.                                          *)
(*                                                                         *)
(* Instants are whole days counted from an epoch.  A date-time string is   *)
(* a record [fmt, t]: the instant t it denotes and the format it is        *)
(* written in, "iso" (2024-01-02T00:00:00Z) or "src" (the platform's       *)
(* MM/DD/YYYY HH:MM:SS); fmt "none" is Python's None or "".                *)
(***************************************************************************)
EXTENDS Integers, Sequences, FiniteSets, TLC

VARIABLES
    \* ---- start watermark and slicing (streams.py 141-155) ----
    config,         \* start_date, lookback_days, slice_step_days
    cursor_value,   \* the entity's prior cursor string, read at line 115
    now,            \* rfc3339_now(), line 111
    start,          \* _compute_start_time's result, line 116
    slices,         \* the slices _generate_slices has still to yield, line 117
    s_pc,           \* position of the slicing run
    \* ---- one protocol-client call (client.py 142-166) ----
    c_pc,           \* "post", "posted", "sleep", "returned", "raised"
    attempt,        \* the loop variable of `for attempt in range(4)`
    backoff,        \* the delay the next time.sleep waits
    sleeps,         \* the delays time.sleep has waited, in order
    posts,          \* the number of session.post calls made
    response,       \* what the last session.post produced
    history,        \* per attempt: "transient", "fatal" or "ok"
    exc,            \* the exception the call raised, "none" if none
    records,        \* the records the call returned to its caller
    cc_result,      \* check_connection: "pending", "false" or "raised"
    \* ---- one incremental read_records run (streams.py 96-127) ----
    entities_list,  \* self.entities(), line 112
    ent_idx,        \* the entity the outer loop is at
    stream_state,   \* the "entities" map passed in: key -> prior cursor
    state_entities, \* the local dict of line 104: key -> cursor
    self_state,     \* self._state["entities"]: key -> cursor
    r_pc,           \* "entity", "slice", "query", "page", "done", "failed"
    time_slice,     \* the slice the inner loop is at, line 117
    max_seen,       \* line 118
    result,         \* the QueryResult _read_incremental_slice holds
    idx,            \* the next record of result.records to yield
    pages,          \* the pages received for the current query, as sent
    emitted,        \* the records handed to the caller for the current slice
    more_args,      \* the result_id argument of each read_more of the query
    observed,       \* key -> greatest watermark instant of its committed slices
    r_exc,          \* the exception that ended the run, "none" if none
    server          \* the platform: most records and pages of one query

(***************************************************************************)
(* Bounds of the model.                                                    *)
(***************************************************************************)
SliceMaxDay == 20
SliceMaxStep == 7
SliceMaxLookback == 3
SliceMaxStartDate == 2
SyncMaxNow == 3
SyncMaxStep == 2
SyncMaxLookback == 1
SyncMaxPrior == 1
DrainMaxNow == 2
DrainMaxRecords == 3
DrainMaxPages == 2
StateMaxDay == 2
DirMaxRecords == 3
StreamMaxNow == 2
StreamMaxRecords == 2
ResumeMaxNow == 3
ResumeMaxRecords == 2
DateMaxInstant == 60
SchemaMaxFrames == 3
XmlMaxChildren == 3
FrameMaxNow == 2

(***************************************************************************)
(* Date-time strings.                                                      *)
(***************************************************************************)
NoneStr == [fmt |-> "none", t |-> 0]
IsoStr(t) == [fmt |-> "iso", t |-> t]
SrcStr(t) == [fmt |-> "src", t |-> t]

\* Python truthiness of an Optional[str]: None and "" are falsy.
Truthy(s) == s.fmt # "none"

\* datetime.fromisoformat accepts the ISO layout only; on MM/DD/YYYY text it
\* raises ValueError.
ParseRaises(value) == value.fmt # "iso"

\* parse_rfc3339 where it returns: the UTC instant the string denotes.
parse_rfc3339(value) == value.t

Max(a, b) == IF a >= b THEN a ELSE b
Min(a, b) == IF a <= b THEN a ELSE b

ValueError == [exc |-> "ValueError", val |-> 0]
Returned(v) == [exc |-> "none", val |-> v]

\* _compute_start_time, with max() dropped: the lookback result is returned
\* even when it precedes the configured start date.
ComputeStartNoClamp(cfg, cursor) ==
    IF ~Truthy(cursor) THEN Returned(parse_rfc3339(cfg.start_date))
    ELSE IF ParseRaises(cursor) THEN ValueError
    ELSE Returned(parse_rfc3339(cursor) - cfg.lookback_days)

\* SageIntacctBaseStream._compute_start_time
ComputeStartTime(cfg, cursor) ==
    LET default_start == parse_rfc3339(cfg.start_date) IN
    IF ~Truthy(cursor) THEN Returned(default_start)
    ELSE IF ParseRaises(cursor) THEN ValueError
    ELSE Returned(Max(parse_rfc3339(cursor) - cfg.lookback_days, default_start))

RECURSIVE SlicesNoClip(_, _, _)
\* _generate_slices with slice_end = cursor + step, the clip to `end` dropped.
SlicesNoClip(cursor, end, step) ==
    IF cursor < end
    THEN <<[start |-> cursor, end |-> cursor + step]>>
             \o SlicesNoClip(cursor + step, end, step)
    ELSE <<>>

RECURSIVE SlicesDescending(_, _, _)
\* _generate_slices yielding the latest slice first.
SlicesDescending(cursor, end, step) ==
    IF cursor < end
    THEN LET slice_end == Min(cursor + step, end) IN
         SlicesDescending(slice_end, end, step)
             \o <<[start |-> cursor, end |-> slice_end]>>
    ELSE <<>>

RECURSIVE GenerateSlices(_, _, _)
\* SageIntacctBaseStream._generate_slices: the slices in the order yielded.
GenerateSlices(cursor, end, step) ==
    IF cursor < end
    THEN LET slice_end == Min(cursor + step, end) IN
         <<[start |-> cursor, end |-> slice_end]>>
             \o GenerateSlices(slice_end, end, step)
    ELSE <<>>

(***************************************************************************)
(* The protocol client: responses and their classification.                *)
(*                                                                         *)
(* A status is "none" (node absent or empty), "success" or "failure".  An  *)
(* error message is the set of the indicator substrings its lower-cased    *)
(* text contains.  A result node is [status, msg, errorno, data], data     *)
(* telling whether its data node holds a record element.                   *)
(***************************************************************************)
MaxResults == 2
MaxAttempts == 4
InitialBackoff == 1

Statuses == {"none", "success", "failure"}

Keywords == {"permission", "timeout", "temporarily unavailable", "login",
             "authentication"}

Messages ==
    {{}} \cup {{k} : k \in Keywords}
         \cup {{"permission", "timeout"}, {"timeout", "login"},
               {"permission", "authentication"}}

\* A result node that succeeded may carry data; one that failed carries its
\* error message and number.
ResultNodes ==
    [status : {"none", "success"}, msg : {{}}, errorno : {""}, data : BOOLEAN]
    \cup [status : {"failure"}, msg : Messages, errorno : {"", "WSP001"},
          data : {FALSE}]

\* The text ET.fromstring cannot parse, and a well-formed response document.
Malformed == [wf |-> FALSE, control |-> "none", auth |-> "none", results |-> <<>>]

Document(control_status, auth_status, results) ==
    [wf |-> TRUE, control |-> control_status, auth |-> auth_status,
     results |-> results]

\* What one session.post produces: a requests exception or an HTTP response.
TransportError(kind) == [kind |-> kind, status_code |-> 0, body |-> Malformed]

HttpResponse(status_code, body) ==
    [kind |-> "http", status_code |-> status_code, body |-> body]

\* The responses whose body _call_function never parses, and unparseable ones.
UnparsedResponses ==
    {TransportError(k) : k \in {"Timeout", "ConnectionError"}}
    \cup {HttpResponse(c, b) : c \in {400, 404, 500, 503},
                               b \in {Malformed, Document("success", "failure", <<>>)}}
    \cup {HttpResponse(200, Malformed)}

NoResponse == [kind |-> "none", status_code |-> 0, body |-> Malformed]

\* `status and status.lower() != "success"` (lines 208, 213, 219)
IsFailure(status) == status # "none" /\ status # "success"

\* The per-result branch with the authentication test ahead of the others.
ClassifyResultAuthFirst(node) ==
    IF "login" \in node.msg \/ "authentication" \in node.msg
    THEN "IntacctAuthError"
    ELSE IF "permission" \in node.msg \/ node.errorno = "WSP001"
    THEN "IntacctPermissionError"
    ELSE IF "timeout" \in node.msg \/ "temporarily unavailable" \in node.msg
    THEN "IntacctTransientError"
    ELSE "IntacctError"

\* _raise_if_failure, lines 221-230: the error a failing result node raises.
ClassifyResult(node) ==
    IF "permission" \in node.msg \/ node.errorno = "WSP001"
    THEN "IntacctPermissionError"
    ELSE IF "timeout" \in node.msg \/ "temporarily unavailable" \in node.msg
    THEN "IntacctTransientError"
    ELSE IF "login" \in node.msg \/ "authentication" \in node.msg
    THEN "IntacctAuthError"
    ELSE "IntacctError"

\* The error of the last failing result node in document order.
RECURSIVE LastResultFailure(_)
LastResultFailure(results) ==
    IF results = <<>> THEN "none"
    ELSE IF IsFailure(results[Len(results)].status)
    THEN ClassifyResult(results[Len(results)])
    ELSE LastResultFailure(SubSeq(results, 1, Len(results) - 1))

\* The error of the first failing result node in document order (the for
\* loop of lines 217-230), "none" when no node fails.
RECURSIVE FirstResultFailure(_)
FirstResultFailure(results) ==
    IF results = <<>> THEN "none"
    ELSE IF IsFailure(Head(results).status) THEN ClassifyResult(Head(results))
    ELSE FirstResultFailure(Tail(results))

\* _raise_if_failure with the result nodes inspected before the
\* authentication block.
RaiseIfFailureResultsFirst(root) ==
    IF IsFailure(root.control) THEN "IntacctError"
    ELSE IF FirstResultFailure(root.results) # "none"
    THEN FirstResultFailure(root.results)
    ELSE IF IsFailure(root.auth) THEN "IntacctAuthError"
    ELSE "none"

\* IntacctClient._raise_if_failure: the exception raised, "none" if none.
RaiseIfFailure(root) ==
    IF IsFailure(root.control) THEN "IntacctError"
    ELSE IF IsFailure(root.auth) THEN "IntacctAuthError"
    ELSE FirstResultFailure(root.results)

\* IntacctClient._parse_records: one record per child of every result/data
\* node; here the number of records.
RECURSIVE ParseRecords(_)
ParseRecords(results) ==
    IF results = <<>> THEN 0
    ELSE (IF Head(results).data THEN 1 ELSE 0) + ParseRecords(Tail(results))

\* The try body of _call_function (lines 147-159) on one response: the
\* exception it raises, "none" when it reaches `return root`.
AttemptOutcome(resp) ==
    IF resp.kind # "http" THEN resp.kind
    ELSE IF resp.status_code >= 500 THEN "IntacctTransientError"
    ELSE IF resp.status_code >= 400 THEN "IntacctError"
    ELSE IF ~resp.body.wf THEN "ParseError"
    ELSE RaiseIfFailure(resp.body)

\* An except clause catching every IntacctError as well.
CaughtAnyIntacctError(e) ==
    e \in {"Timeout", "ConnectionError", "IntacctTransientError",
           "IntacctError", "IntacctAuthError", "IntacctPermissionError"}

\* line 160: except (requests.Timeout, requests.ConnectionError,
\* IntacctTransientError)
Caught(e) == e \in {"Timeout", "ConnectionError", "IntacctTransientError"}

\* A backoff that does not grow.
BackoffConstant(b) == b

\* line 164: backoff *= 2
NextBackoff(b) == b * 2

\* line 161: if attempt == 3
LastAttempt(a) == a = MaxAttempts - 1

(***************************************************************************)
(* One call of _call_function followed by the caller's _parse_records      *)
(* (read_by_query, lines 111-112).                                         *)
(***************************************************************************)
call_vars ==
    <<c_pc, attempt, backoff, sleeps, posts, response, history, exc, records,
      cc_result>>

CallIdle ==
    /\ c_pc = "idle"
    /\ attempt = 0
    /\ backoff = InitialBackoff
    /\ sleeps = <<>>
    /\ posts = 0
    /\ response = NoResponse
    /\ history = <<>>
    /\ exc = "none"
    /\ records = 0
    /\ cc_result = "pending"

\* lines 143-145: request built, backoff = 1.0, the loop entered
CallInit ==
    /\ c_pc = "post"
    /\ attempt = 0
    /\ backoff = InitialBackoff
    /\ sleeps = <<>>
    /\ posts = 0
    /\ response = NoResponse
    /\ history = <<>>
    /\ exc = "none"
    /\ records = 0
    /\ cc_result = "pending"

\* lines 147-152: session.post is called and raises or answers `resp`.
Post(resp) ==
    /\ c_pc = "post"
    /\ response' = resp
    /\ posts' = posts + 1
    /\ c_pc' = "posted"
    /\ UNCHANGED <<attempt, backoff, sleeps, history, exc, records, cc_result>>

\* session.post answers with any response of the protocol.
PostAny ==
    /\ c_pc = "post"
    /\ \/ \E control_status \in Statuses, auth_status \in Statuses,
             n \in 0..MaxResults :
             \E results \in [1..n -> ResultNodes] :
                 Post(HttpResponse(200, Document(control_status, auth_status,
                                                 results)))
       \/ \E resp \in UnparsedResponses : Post(resp)

\* lines 153-159, then the caller's _parse_records: the attempt succeeds.
AttemptReturns ==
    /\ c_pc = "posted"
    /\ AttemptOutcome(response) = "none"
    /\ history' = Append(history, "ok")
    /\ records' = ParseRecords(response.body.results)
    /\ c_pc' = "returned"
    /\ UNCHANGED <<attempt, backoff, sleeps, posts, response, exc, cc_result>>

\* lines 153-158: the attempt raises an exception line 160 does not catch.
AttemptRaises ==
    /\ c_pc = "posted"
    /\ AttemptOutcome(response) # "none"
    /\ ~Caught(AttemptOutcome(response))
    /\ history' = Append(history, "fatal")
    /\ exc' = AttemptOutcome(response)
    /\ c_pc' = "raised"
    /\ UNCHANGED <<attempt, backoff, sleeps, posts, response, records, cc_result>>

\* lines 160-162: a caught failure on the last attempt is re-raised.
AttemptExhausted ==
    /\ c_pc = "posted"
    /\ Caught(AttemptOutcome(response))
    /\ LastAttempt(attempt)
    /\ history' = Append(history, "transient")
    /\ exc' = AttemptOutcome(response)
    /\ c_pc' = "raised"
    /\ UNCHANGED <<attempt, backoff, sleeps, posts, response, records, cc_result>>

\* lines 160-161: a caught failure before the last attempt goes on to sleep.
AttemptCaught ==
    /\ c_pc = "posted"
    /\ Caught(AttemptOutcome(response))
    /\ ~LastAttempt(attempt)
    /\ history' = Append(history, "transient")
    /\ c_pc' = "sleep"
    /\ UNCHANGED <<attempt, backoff, sleeps, posts, response, exc, records, cc_result>>

\* lines 163-164 and the next turn of the loop; the failed attempt's
\* response is not looked at again.
Sleep ==
    /\ c_pc = "sleep"
    /\ sleeps' = Append(sleeps, backoff)
    /\ backoff' = NextBackoff(backoff)
    /\ attempt' = attempt + 1
    /\ response' = NoResponse
    /\ c_pc' = "post"
    /\ UNCHANGED <<posts, history, exc, records, cc_result>>

\* source.py 46-47: check_connection, whose first client call (line 27,
\* read_entity_details) this is, catches an IntacctError and returns
\* (False, str(error)).
CheckConnectionReturnsFalse ==
    /\ c_pc = "raised"
    /\ cc_result = "pending"
    /\ exc \in {"IntacctError", "IntacctAuthError", "IntacctPermissionError",
                "IntacctTransientError"}
    /\ cc_result' = "false"
    /\ UNCHANGED <<c_pc, attempt, backoff, sleeps, posts, response, history,
                   exc, records>>

\* source.py 46-49: any other exception passes the except clause and leaves
\* check_connection after client.close().
CheckConnectionRaises ==
    /\ c_pc = "raised"
    /\ cc_result = "pending"
    /\ exc \notin {"IntacctError", "IntacctAuthError",
                   "IntacctPermissionError", "IntacctTransientError"}
    /\ cc_result' = "raised"
    /\ UNCHANGED <<c_pc, attempt, backoff, sleeps, posts, response, history,
                   exc, records>>

(***************************************************************************)
(* One incremental run of read_records (streams.py 111-127) for a stream   *)
(* with supports_incremental, and the platform's answers to its queries.   *)
(*                                                                         *)
(* A page is [records, token, num_remaining] as the platform sent it:      *)
(* token 0 is an omitted resultId, num_remaining 1 stands for any positive *)
(* count.  A record is [wm, id]: its WHENMODIFIED text and the position    *)
(* the platform sent it at within the query.                               *)
(***************************************************************************)
NoneEntity == "None"

\* line 113: entity_key = entity_id or "_root"
EntityKey(entity_id) == IF entity_id = NoneEntity THEN "_root" ELSE entity_id

EntityKeys == {"_root", "E1", "E2"}

\* entities(): the configured ids (possibly none), the discovered ids, or
\* [None] when discovery finds nothing.
EntityLists == {<<>>, <<NoneEntity>>, <<"E1">>, <<"E1", "E2">>}

IteratedKeys(list) == {EntityKey(list[i]) : i \in 1..Len(list)}

CallExceptions ==
    {"IntacctError", "IntacctAuthError", "IntacctPermissionError",
     "IntacctTransientError", "Timeout", "ConnectionError", "ParseError"}

NoSlice == [start |-> 0, end |-> 0]
NoResult == [records |-> <<>>, result_id |-> 0, num_remaining |-> 0]

RECURSIVE Received(_)
\* The records of the pages received, in receipt order.
Received(pgs) ==
    IF pgs = <<>> THEN <<>>
    ELSE Received(SubSeq(pgs, 1, Len(pgs) - 1)) \o pgs[Len(pgs)].records

\* The WHENMODIFIED texts a record matching the slice's filter can carry.
SliceWatermarks(slice) ==
    {NoneStr} \cup {IsoStr(t) : t \in slice.start..(slice.end - 1)}
              \cup {SrcStr(slice.start)}

Page(wms, first_id, token, num_remaining) ==
    [records |-> [i \in 1..Len(wms) |-> [wm |-> wms[i], id |-> first_id + i - 1]],
     token |-> token,
     num_remaining |-> num_remaining]

\* The stamp of a record with the absent marker, whatever the pass.
StampUnscoped(record, entity_id) ==
    [wm |-> record.wm, id |-> record.id, entity_id |-> NoneEntity]

\* lines 161-162, 166-167, 174-175 and 179-180: record["entity_id"] = entity_id
Stamp(record, entity_id) ==
    [wm |-> record.wm, id |-> record.id, entity_id |-> entity_id]

\* line 177: while result.result_id and result.num_remaining > 0
ContinueCondition(res) == res.result_id # 0 /\ res.num_remaining > 0

\* The slice's checkpoint taken as soon as a page's records are yielded.
PageDrained(res, i) == i > Len(res.records)

\* lines 119-125: the for loop over _read_incremental_slice has ended.
SliceDrained(res, i) == i > Len(res.records) /\ ~ContinueCondition(res)

\* lines 121-123 on one record's watermark: the new max_seen, or ValueError.
TrackMaxSeen(seen, wm) ==
    IF ~Truthy(wm) THEN [exc |-> "none", val |-> seen]
    ELSE IF ~Truthy(seen) THEN [exc |-> "none", val |-> wm]
    ELSE IF ParseRaises(wm) \/ ParseRaises(seen) THEN [exc |-> "ValueError", val |-> seen]
    ELSE IF parse_rfc3339(wm) > parse_rfc3339(seen) THEN [exc |-> "none", val |-> wm]
    ELSE [exc |-> "none", val |-> seen]

RECURSIVE MaxInstant(_)
\* The greatest instant among the watermarks of the records, -1 if none.
MaxInstant(recs) ==
    IF recs = <<>> THEN -1
    ELSE LET r == recs[Len(recs)]
             rest == MaxInstant(SubSeq(recs, 1, Len(recs) - 1))
         IN IF Truthy(r.wm) THEN Max(r.wm.t, rest) ELSE rest

sync_vars ==
    <<entities_list, ent_idx, stream_state, state_entities, self_state, r_pc,
      time_slice, max_seen, result, idx, pages, emitted, more_args, observed,
      r_exc, server>>

\* A stream no read_records call is running on.
SyncIdle ==
    /\ entities_list = <<>>
    /\ ent_idx = 1
    /\ stream_state = [k \in EntityKeys |-> NoneStr]
    /\ state_entities = stream_state
    /\ self_state = [k \in EntityKeys |-> NoneStr]
    /\ r_pc = "idle"
    /\ time_slice = NoSlice
    /\ max_seen = NoneStr
    /\ result = NoResult
    /\ idx = 1
    /\ pages = <<>>
    /\ emitted = <<>>
    /\ more_args = <<>>
    /\ observed = [k \in EntityKeys |-> -1]
    /\ r_exc = "none"
    /\ server = [max_records |-> 0, max_pages |-> 0]

\* The variables no step of the run assigns.
run_consts == <<config, now, s_pc, entities_list, stream_state, server>>

\* lines 112-117: the next entity, its prior cursor, start and slices.
NextEntity ==
    /\ r_pc = "entity"
    /\ ent_idx <= Len(entities_list)
    /\ LET entity_key == EntityKey(entities_list[ent_idx])
           current == state_entities[entity_key]
           st == ComputeStartTime(config, current)
       IN /\ cursor_value' = current
          /\ start' = st
          /\ IF st.exc = "none"
             THEN /\ slices' = GenerateSlices(st.val, now, config.slice_step_days)
                  /\ r_pc' = "slice"
                  /\ r_exc' = r_exc
             ELSE /\ slices' = slices
                  /\ r_pc' = "failed"
                  /\ r_exc' = st.exc
    /\ UNCHANGED <<ent_idx, state_entities, self_state, time_slice, max_seen,
                   result, idx, pages, emitted, more_args, observed>>
    /\ UNCHANGED <<run_consts, call_vars>>

\* line 112: the for loop over self.entities() ends, read_records returns.
EntitiesExhausted ==
    /\ r_pc = "entity"
    /\ ent_idx > Len(entities_list)
    /\ r_pc' = "done"
    /\ UNCHANGED <<cursor_value, start, slices, ent_idx, state_entities,
                   self_state, time_slice, max_seen, result, idx, pages,
                   emitted, more_args, observed, r_exc>>
    /\ UNCHANGED <<run_consts, call_vars>>

\* lines 117-118: the next slice; max_seen = cursor_value.
NextSlice ==
    /\ r_pc = "slice"
    /\ slices # <<>>
    /\ time_slice' = Head(slices)
    /\ slices' = Tail(slices)
    /\ max_seen' = cursor_value
    /\ result' = NoResult
    /\ idx' = 1
    /\ pages' = <<>>
    /\ emitted' = <<>>
    /\ more_args' = <<>>
    /\ r_pc' = "query"
    /\ UNCHANGED <<cursor_value, start, ent_idx, state_entities, self_state,
                   observed, r_exc>>
    /\ UNCHANGED <<run_consts, call_vars>>

\* line 117: _generate_slices is exhausted, on to the next entity.
SlicesExhausted ==
    /\ r_pc = "slice"
    /\ slices = <<>>
    /\ ent_idx' = ent_idx + 1
    /\ r_pc' = "entity"
    /\ UNCHANGED <<cursor_value, start, slices, state_entities, self_state,
                   time_slice, max_seen, result, idx, pages, emitted,
                   more_args, observed, r_exc>>
    /\ UNCHANGED <<run_consts, call_vars>>

\* The numbers of records the platform's next page can hold, and the
\* remaining counts it can report: a query has at most server.max_records
\* records on at most server.max_pages pages.
PageSizes == 0..(server.max_records - Len(Received(pages)))

RemainingCounts == IF Len(pages) + 1 >= server.max_pages THEN {0} ELSE 0..1

\* The platform's next page of the current query is received.
Receive(page, result_id) ==
    /\ result' = [records |-> page.records,
                  result_id |-> result_id,
                  num_remaining |-> page.num_remaining]
    /\ idx' = 1
    /\ pages' = Append(pages, page)

\* line 173 and client.py 111-117: read_by_query returns the first page.
ReadByQueryReturns ==
    /\ r_pc = "query"
    /\ \E n \in PageSizes :
       \E wms \in [1..n -> SliceWatermarks(time_slice)] :
       \E token \in {0, 1} :
       \E num_remaining \in RemainingCounts :
           Receive(Page(wms, 1, token, num_remaining), token)
    /\ r_pc' = "page"
    /\ UNCHANGED <<cursor_value, start, slices, ent_idx, state_entities,
                   self_state, time_slice, max_seen, emitted, more_args,
                   observed, r_exc>>
    /\ UNCHANGED <<run_consts, call_vars>>

\* line 173: read_by_query raises what _call_function raised.
ReadByQueryRaises ==
    /\ r_pc = "query"
    /\ \E e \in CallExceptions : r_exc' = e
    /\ r_pc' = "failed"
    /\ UNCHANGED <<cursor_value, start, slices, ent_idx, state_entities,
                   self_state, time_slice, max_seen, result, idx, pages,
                   emitted, more_args, observed>>
    /\ UNCHANGED <<run_consts, call_vars>>

\* lines 174-176 / 179-181 and 119-124: the next record of the page is
\* stamped, its watermark tracked and the record yielded; a ValueError of
\* parse_rfc3339 ends the run before the yield.
YieldRecord ==
    /\ r_pc = "page"
    /\ idx <= Len(result.records)
    /\ LET record == Stamp(result.records[idx], entities_list[ent_idx])
           seen == TrackMaxSeen(max_seen, record.wm)
       IN IF seen.exc = "none"
          THEN /\ max_seen' = seen.val
               /\ emitted' = Append(emitted, record)
               /\ idx' = idx + 1
               /\ UNCHANGED <<r_pc, r_exc>>
          ELSE /\ r_pc' = "failed"
               /\ r_exc' = seen.exc
               /\ UNCHANGED <<max_seen, emitted, idx>>
    /\ UNCHANGED <<cursor_value, start, slices, ent_idx, state_entities,
                   self_state, time_slice, result, pages, more_args, observed>>
    /\ UNCHANGED <<run_consts, call_vars>>

\* lines 177-178 and client.py 119-129: read_more returns the next page;
\* its result_id is the page's token, or the one passed in when omitted.
ReadMoreReturns ==
    /\ r_pc = "page"
    /\ idx > Len(result.records)
    /\ ContinueCondition(result)
    /\ more_args' = Append(more_args, result.result_id)
    /\ \E n \in PageSizes :
       \E wms \in [1..n -> SliceWatermarks(time_slice)] :
       \E token \in {0, Len(pages) + 1} :
       \E num_remaining \in RemainingCounts :
           Receive(Page(wms, Len(Received(pages)) + 1, token, num_remaining),
                   IF token # 0 THEN token ELSE result.result_id)
    /\ UNCHANGED <<cursor_value, start, slices, ent_idx, state_entities,
                   self_state, r_pc, time_slice, max_seen, emitted, observed,
                   r_exc>>
    /\ UNCHANGED <<run_consts, call_vars>>

\* line 178: read_more raises what _call_function raised.
ReadMoreRaises ==
    /\ r_pc = "page"
    /\ idx > Len(result.records)
    /\ ContinueCondition(result)
    /\ more_args' = Append(more_args, result.result_id)
    /\ \E e \in CallExceptions : r_exc' = e
    /\ r_pc' = "failed"
    /\ UNCHANGED <<cursor_value, start, slices, ent_idx, state_entities,
                   self_state, time_slice, max_seen, result, idx, pages,
                   emitted, observed>>
    /\ UNCHANGED <<run_consts, call_vars>>

\* The slice is committed: its watermarks count as observed.
Observe(entity_key) ==
    observed' = [observed EXCEPT
                     ![entity_key] = Max(@, MaxInstant(emitted))]

\* The checkpoint writing a state that holds the entry of the entity being
\* read and no other.
CheckpointOwnEntryOnly ==
    /\ r_pc = "page"
    /\ SliceDrained(result, idx)
    /\ Truthy(max_seen)
    /\ LET entity_key == EntityKey(entities_list[ent_idx]) IN
          /\ state_entities' = [state_entities EXCEPT ![entity_key] = max_seen]
          /\ self_state' = [k \in EntityKeys |->
                               IF k = entity_key THEN max_seen ELSE NoneStr]
          /\ Observe(entity_key)
    /\ r_pc' = "slice"
    /\ UNCHANGED <<cursor_value, start, slices, ent_idx, time_slice, max_seen,
                   result, idx, pages, emitted, more_args, r_exc>>
    /\ UNCHANGED <<run_consts, call_vars>>

\* lines 125-127: the slice is drained and max_seen is set; the checkpoint.
Checkpoint ==
    /\ r_pc = "page"
    /\ SliceDrained(result, idx)
    /\ Truthy(max_seen)
    /\ LET entity_key == EntityKey(entities_list[ent_idx]) IN
          /\ state_entities' = [state_entities EXCEPT ![entity_key] = max_seen]
          /\ Observe(entity_key)
    /\ self_state' = state_entities'
    /\ r_pc' = "slice"
    /\ UNCHANGED <<cursor_value, start, slices, ent_idx, time_slice, max_seen,
                   result, idx, pages, emitted, more_args, r_exc>>
    /\ UNCHANGED <<run_consts, call_vars>>

\* line 125: the slice is drained with max_seen None; nothing is written.
SliceEndsUnwritten ==
    /\ r_pc = "page"
    /\ SliceDrained(result, idx)
    /\ ~Truthy(max_seen)
    /\ Observe(EntityKey(entities_list[ent_idx]))
    /\ r_pc' = "slice"
    /\ UNCHANGED <<cursor_value, start, slices, ent_idx, state_entities,
                   self_state, time_slice, max_seen, result, idx, pages,
                   emitted, more_args, r_exc>>
    /\ UNCHANGED <<run_consts, call_vars>>

(***************************************************************************)
(* get_updated_state (streams.py 129-139): the state is the map of its     *)
(* "entities" entry, key -> cursor string.                                 *)
(***************************************************************************)
VARIABLES
    current_stream_state,  \* the state the next call is given
    initial_state,         \* the state the first call was given
    latest_record,         \* the record of the last call
    fed_max,               \* key -> greatest instant fed with a cursor, or -1
    g_pc                   \* "call", or "raised" once a call raised

state_vars ==
    <<current_stream_state, initial_state, latest_record, fed_max, g_pc>>

\* The records get_updated_state is given: entity_id set or absent, the
\* cursor field a date-time string or absent.
NoRecord == [wm |-> NoneStr, id |-> 0, entity_id |-> NoneEntity]

\* SageIntacctBaseStream.get_updated_state: the state returned, or ValueError.
GetUpdatedState(current_state, record) ==
    LET entity_id == EntityKey(record.entity_id)
        latest_cursor == record.wm
        existing == current_state[entity_id]
        updated == [current_state EXCEPT ![entity_id] = latest_cursor]
    IN IF ~Truthy(latest_cursor) THEN [exc |-> "none", val |-> current_state]
       ELSE IF ~Truthy(existing) THEN [exc |-> "none", val |-> updated]
       ELSE IF ParseRaises(latest_cursor) \/ ParseRaises(existing)
       THEN [exc |-> "ValueError", val |-> current_state]
       ELSE IF parse_rfc3339(latest_cursor) > parse_rfc3339(existing)
       THEN [exc |-> "none", val |-> updated]
       ELSE [exc |-> "none", val |-> current_state]

\* No get_updated_state call has been made.
StateIdle ==
    /\ current_stream_state = [k \in EntityKeys |-> NoneStr]
    /\ initial_state = current_stream_state
    /\ latest_record = NoRecord
    /\ fed_max = [k \in EntityKeys |-> -1]
    /\ g_pc = "idle"

StateCursors ==
    {NoneStr} \cup {IsoStr(t) : t \in 0..StateMaxDay} \cup {SrcStr(0)}

StateRecords ==
    [wm : StateCursors, id : {1}, entity_id : {NoneEntity, "E1", "E2"}]

\* The caller feeds one record and keeps the returned state.
Feed(record) ==
    /\ latest_record' = record
    /\ fed_max' =
         IF Truthy(record.wm)
         THEN [fed_max EXCEPT ![EntityKey(record.entity_id)] =
                   Max(@, record.wm.t)]
         ELSE fed_max
    /\ UNCHANGED initial_state

GetUpdatedStateReturns ==
    /\ g_pc = "call"
    /\ \E record \in StateRecords :
         /\ GetUpdatedState(current_stream_state, record).exc = "none"
         /\ current_stream_state' =
                GetUpdatedState(current_stream_state, record).val
         /\ Feed(record)
    /\ UNCHANGED g_pc

\* line 137: parse_rfc3339 raises out of get_updated_state.
GetUpdatedStateRaises ==
    /\ g_pc = "call"
    /\ \E record \in StateRecords :
         /\ GetUpdatedState(current_stream_state, record).exc # "none"
         /\ Feed(record)
    /\ g_pc' = "raised"
    /\ UNCHANGED current_stream_state

(***************************************************************************)
(* Entity resolution (client.py 74-84, source.py 125-131) and               *)
(* check_connection (source.py 23-49).  Each client call of                *)
(* check_connection returns or raises one of the client's exceptions.      *)
(***************************************************************************)
VARIABLES
    entities_mode,  \* config["entities_mode"]
    entity_ids,     \* config["entity_ids"]
    listing,        \* the records of the platform's readEntityDetails answer
    discovered,     \* what read_entity_details returned
    resolved,       \* `entities`, source.py line 27
    k_pc,           \* "resolve", "probe", "lookup", "done"
    probe_idx,      \* position in the probe loop of line 33
    probe_error,    \* line 32
    lookup_idx,     \* position in the lookup loop of line 43
    k_calls,        \* the client calls check_connection has made, in order
    k_exc,          \* the exception that ended check_connection's try block
    k_result        \* "pending", "true", "false", or "raised"

dir_vars == <<entities_mode, entity_ids, listing, discovered>>

check_vars ==
    <<resolved, k_pc, probe_idx, probe_error, lookup_idx, k_calls, k_exc,
      k_result>>

\* An identifier text of a directory record or of entity_ids; "" is an
\* empty or absent value.
IdTexts == {"", "E1", "E2"}

\* The order of Python's sorted() on the identifiers.
EntityRank(e) == IF e = "E1" THEN 1 ELSE IF e = "E2" THEN 2 ELSE 0

\* The records of a directory listing: each key present with an identifier
\* or absent.
DirRecords == [ENTITYID : IdTexts, LOCATIONID : {"", "E2"}, ID : {"", "E1"}]

\* client.py 78-83: the first of ENTITYID, LOCATIONID, ID that is a
\* non-empty string, "" when the record has none.
EntityIdOf(record) ==
    IF record.ENTITYID # "" THEN record.ENTITYID
    ELSE IF record.LOCATIONID # "" THEN record.LOCATIONID
    ELSE record.ID

\* client.py 77-83: the list entity_ids after the loop over the records.
RECURSIVE CollectEntityIds(_)
CollectEntityIds(recs) ==
    IF recs = <<>> THEN <<>>
    ELSE IF EntityIdOf(Head(recs)) # ""
    THEN <<EntityIdOf(Head(recs))>> \o CollectEntityIds(Tail(recs))
    ELSE CollectEntityIds(Tail(recs))

Elements(seq) == {seq[i] : i \in 1..Len(seq)}

\* sorted(set): the elements in ascending order, each once.
RECURSIVE Sorted(_)
Sorted(set) ==
    IF set = {} THEN <<>>
    ELSE LET least == CHOOSE x \in set :
                          \A y \in set : EntityRank(x) <= EntityRank(y)
         IN <<least>> \o Sorted(set \ {least})

\* read_entity_details returning the identifiers as collected.
EntityIdsAsListed(recs) == CollectEntityIds(recs)

\* IntacctClient.read_entity_details, on the records of the response.
ReadEntityDetails(recs) == Sorted(Elements(CollectEntityIds(recs)))

\* `[entity for entity in config.get("entity_ids", []) if entity]`
RECURSIVE NonEmpty(_)
NonEmpty(ids) ==
    IF ids = <<>> THEN <<>>
    ELSE IF Head(ids) # "" THEN <<Head(ids)>> \o NonEmpty(Tail(ids))
    ELSE NonEmpty(Tail(ids))

\* `x or [None]`
OrNone(list) == IF list = <<>> THEN <<NoneEntity>> ELSE list

ProbeObjects == <<"CUSTOMER", "ARINVOICE", "SODOCUMENT">>
LookupObjects == <<"SODOCUMENT", "SODOCUMENTENTRY", "SODOCUMENTSUBTOTALS">>

\* source.py 46: the exceptions check_connection turns into (False, text).
CaughtByCheck ==
    {"IntacctError", "IntacctAuthError", "IntacctPermissionError",
     "IntacctTransientError"}

ClientCall(fn, object_name, entity_id) ==
    [fn |-> fn, object |-> object_name, entity_id |-> entity_id]

DirIdle ==
    /\ entities_mode = "all"
    /\ entity_ids = <<>>
    /\ listing = <<>>
    /\ discovered = <<>>

CheckIdle ==
    /\ resolved = <<>>
    /\ k_pc = "idle"
    /\ probe_idx = 1
    /\ probe_error = "none"
    /\ lookup_idx = 1
    /\ k_calls = <<>>
    /\ k_exc = "none"
    /\ k_result = "pending"

\* lines 46-49: the try block ends with exception e.
CheckEndsWith(e) ==
    /\ k_exc' = e
    /\ k_result' = IF e \in CaughtByCheck THEN "false" ELSE "raised"
    /\ k_pc' = "done"

\* SourceSageIntacct._resolve_entities, on what read_entity_details
\* returned.
ResolveEntities(mode, ids, found) ==
    IF mode = "selected" THEN OrNone(NonEmpty(ids)) ELSE OrNone(found)

\* _resolve_entities in mode "selected": no client call is made; line 28
\* does not apply.
ResolveSelected ==
    /\ k_pc = "resolve"
    /\ entities_mode = "selected"
    /\ resolved' = OrNone(NonEmpty(entity_ids))
    /\ k_pc' = "probe"
    /\ UNCHANGED <<probe_idx, probe_error, lookup_idx, k_calls, k_exc,
                   k_result>>
    /\ UNCHANGED dir_vars

\* _resolve_entities in the other mode: read_entity_details returns, then
\* lines 28-29.
ResolveDiscovered ==
    /\ k_pc = "resolve"
    /\ entities_mode # "selected"
    /\ discovered' = ReadEntityDetails(listing)
    /\ resolved' = OrNone(discovered')
    /\ k_calls' = Append(k_calls, ClientCall("readEntityDetails", "", NoneEntity))
    /\ IF entities_mode = "all" /\ resolved' = <<>>
       THEN k_result' = "false" /\ k_pc' = "done"
       ELSE k_pc' = "probe" /\ UNCHANGED k_result
    /\ UNCHANGED <<probe_idx, probe_error, lookup_idx, k_exc>>
    /\ UNCHANGED <<entities_mode, entity_ids, listing>>

\* read_entity_details raises.
ResolveRaises ==
    /\ k_pc = "resolve"
    /\ entities_mode # "selected"
    /\ k_calls' = Append(k_calls, ClientCall("readEntityDetails", "", NoneEntity))
    /\ \E e \in CallExceptions : CheckEndsWith(e)
    /\ UNCHANGED <<resolved, probe_idx, probe_error, lookup_idx>>
    /\ UNCHANGED dir_vars

\* line 31: probe_entity = entities[0] if entities else None
ProbeEntity == IF resolved # <<>> THEN resolved[1] ELSE NoneEntity

ProbeCall ==
    k_calls' = Append(k_calls, ClientCall("readByQuery", ProbeObjects[probe_idx],
                                          ProbeEntity))

\* lines 35-37: a probe query returns; the loop breaks.
ProbeReturns ==
    /\ k_pc = "probe"
    /\ ProbeCall
    /\ probe_error' = "none"
    /\ k_pc' = "lookup"
    /\ UNCHANGED <<resolved, probe_idx, lookup_idx, k_exc, k_result>>
    /\ UNCHANGED dir_vars

\* lines 38-41: a probe query is denied; after the last probe object the
\* error is raised and caught at line 46.
ProbeDenied ==
    /\ k_pc = "probe"
    /\ ProbeCall
    /\ probe_error' = "IntacctPermissionError"
    /\ IF probe_idx = Len(ProbeObjects)
       THEN CheckEndsWith("IntacctPermissionError") /\ UNCHANGED probe_idx
       ELSE probe_idx' = probe_idx + 1 /\ UNCHANGED <<k_pc, k_exc, k_result>>
    /\ UNCHANGED <<resolved, lookup_idx>>
    /\ UNCHANGED dir_vars

\* line 36: a probe query raises another exception.
ProbeRaises ==
    /\ k_pc = "probe"
    /\ ProbeCall
    /\ \E e \in CallExceptions \ {"IntacctPermissionError"} : CheckEndsWith(e)
    /\ UNCHANGED <<resolved, probe_idx, probe_error, lookup_idx>>
    /\ UNCHANGED dir_vars

LookupCall ==
    k_calls' = Append(k_calls, ClientCall("lookup", LookupObjects[lookup_idx],
                                          ProbeEntity))

\* lines 43-45: a lookup returns; after the last one (True, None).
LookupReturns ==
    /\ k_pc = "lookup"
    /\ LookupCall
    /\ IF lookup_idx = Len(LookupObjects)
       THEN k_result' = "true" /\ k_pc' = "done" /\ UNCHANGED lookup_idx
       ELSE lookup_idx' = lookup_idx + 1 /\ UNCHANGED <<k_pc, k_result>>
    /\ UNCHANGED <<resolved, probe_idx, probe_error, k_exc>>
    /\ UNCHANGED dir_vars

\* line 44: a lookup raises.
LookupRaises ==
    /\ k_pc = "lookup"
    /\ LookupCall
    /\ \E e \in CallExceptions : CheckEndsWith(e)
    /\ UNCHANGED <<resolved, probe_idx, probe_error, lookup_idx>>
    /\ UNCHANGED dir_vars

(***************************************************************************)
(* Two read_records calls in a row: the first is interrupted, the second   *)
(* is given the state the first one committed last.                        *)
(***************************************************************************)
VARIABLES
    run_no,         \* 1: the run that is interrupted, 2: the run that resumes
    dataset,        \* the WHENMODIFIED texts of the records the platform
                    \* holds for every entity, the same in both runs
    delivered,      \* the records yielded over both runs: [entity_id, wm]
    first_run       \* now and stream_state of the first run

resume_vars == <<run_no, dataset, delivered, first_run>>

\* No pair of runs is under way.
ResumeIdle ==
    /\ run_no = 0
    /\ dataset = {}
    /\ delivered = {}
    /\ first_run = [now |-> 0, state |-> [k \in EntityKeys |-> NoneStr]]

(***************************************************************************)
(* The date-time conversions: format_query_dt (client.py 53-54),           *)
(* to_rfc3339 and parse_rfc3339 (streams.py 16-25), applied to an instant. *)
(***************************************************************************)
VARIABLES
    dt_value,       \* the instant that is formatted
    dt_text,        \* the string the formatting produced
    dt_parsed,      \* what parse_rfc3339 made of the string
    dt_pc           \* "value", "text", "parsed" or "raised"

date_vars == <<dt_value, dt_text, dt_parsed, dt_pc>>

DateIdle ==
    /\ dt_value = 0
    /\ dt_text = NoneStr
    /\ dt_parsed = Returned(0)
    /\ dt_pc = "idle"

\* format_query_dt: strftime("%m/%d/%Y %H:%M:%S")
format_query_dt(value) == SrcStr(value)

\* to_rfc3339: isoformat() with "+00:00" written as "Z"
to_rfc3339(value) == IsoStr(value)

\* streams.py 16-21: datetime.fromisoformat parses the text or raises.
ParseRfc3339(value) ==
    IF ParseRaises(value) THEN ValueError ELSE Returned(parse_rfc3339(value))

\* The instant is written in the platform's format.
ApplyFormatQueryDt ==
    /\ dt_pc = "value"
    /\ dt_text' = format_query_dt(dt_value)
    /\ dt_pc' = "text"
    /\ UNCHANGED <<dt_value, dt_parsed>>

\* The instant is written in the canonical format.
ApplyToRfc3339 ==
    /\ dt_pc = "value"
    /\ dt_text' = to_rfc3339(dt_value)
    /\ dt_pc' = "text"
    /\ UNCHANGED <<dt_value, dt_parsed>>

\* parse_rfc3339 returns the instant of the string.
ParseRfc3339Returns ==
    /\ dt_pc = "text"
    /\ ParseRfc3339(dt_text).exc = "none"
    /\ dt_parsed' = ParseRfc3339(dt_text)
    /\ dt_pc' = "parsed"
    /\ UNCHANGED <<dt_value, dt_text>>

\* parse_rfc3339 raises the ValueError of datetime.fromisoformat.
ParseRfc3339Raises ==
    /\ dt_pc = "text"
    /\ ParseRfc3339(dt_text).exc # "none"
    /\ dt_parsed' = ParseRfc3339(dt_text)
    /\ dt_pc' = "raised"
    /\ UNCHANGED <<dt_value, dt_text>>

(***************************************************************************)
(* Schema discovery: the getter SourceSageIntacct.streams installs on     *)
(* every stream (source.py 51-81).  A schema is its set of property names  *)
(* and its additionalProperties flag.                                      *)
(***************************************************************************)
VARIABLES
    sg_frames,      \* the _get_schema calls that are on the stack
    sg_pc,          \* "resolve", "infer", "lookup", "returned" or "raised"
    sg_schema,      \* the schema inferred in the innermost call, or returned
    sg_failed,      \* the step that raised in each call that reached line 78
    sg_exc          \* the exception the getter raised, "none" if none

schema_vars == <<sg_frames, sg_pc, sg_schema, sg_failed, sg_exc>>

\* streams.py 72-82: RECORDNO, WHENMODIFIED and entity_id.
FixedFields == {"RECORDNO", "WHENMODIFIED", "entity_id"}

\* SageIntacctBaseStream.get_json_schema as the class defines it.
FixedSchema == [properties |-> FixedFields, additionalProperties |-> TRUE]

NoSchema == [properties |-> {}, additionalProperties |-> FALSE]

\* The field names a sample of records or a lookup can add.
SampleFields == {"CONTACTINFO_EMAIL1", "NAME"}
LookupFields == {"NAME", "STATUS"}

\* infer_json_schema: the fixed fields and the fields of the sample.
InferJsonSchema(sample) ==
    [properties |-> FixedFields \cup sample, additionalProperties |-> TRUE]

\* source.py 95-103: the lookup's fields are added to the properties.
MergeLookupFields(schema, lookup) ==
    [schema EXCEPT !.properties = @ \cup lookup]

SchemaIdle ==
    /\ sg_frames = 0
    /\ sg_pc = "idle"
    /\ sg_schema = NoSchema
    /\ sg_failed = <<>>
    /\ sg_exc = "none"

\* source.py 78-79: the except clause calls stream.get_json_schema(), the
\* attribute line 56 has set to this very getter: one more _get_schema
\* call, or RecursionError when the stack is full; raised in the except
\* clauses of the callers, it leaves them all.
Except(step) ==
    /\ sg_failed' = Append(sg_failed, step)
    /\ IF sg_frames < SchemaMaxFrames
       THEN /\ sg_frames' = sg_frames + 1
            /\ sg_pc' = "resolve"
            /\ sg_schema' = NoSchema
            /\ UNCHANGED sg_exc
       ELSE /\ sg_pc' = "raised"
            /\ sg_exc' = "RecursionError"
            /\ sg_schema' = NoSchema
            /\ UNCHANGED sg_frames

\* line 72-73: _resolve_entities returns.
SchemaResolveReturns ==
    /\ sg_pc = "resolve"
    /\ sg_pc' = "infer"
    /\ UNCHANGED <<sg_frames, sg_schema, sg_failed, sg_exc>>

\* line 72: _resolve_entities raises what read_entity_details raised.
SchemaResolveRaises ==
    /\ sg_pc = "resolve"
    /\ Except("_resolve_entities")

\* line 74: infer_json_schema returns the schema of a sample.
SchemaInferReturns ==
    /\ sg_pc = "infer"
    /\ \E sample \in SUBSET SampleFields :
           sg_schema' = InferJsonSchema(sample)
    /\ sg_pc' = "lookup"
    /\ UNCHANGED <<sg_frames, sg_failed, sg_exc>>

\* line 74: infer_json_schema raises.
SchemaInferRaises ==
    /\ sg_pc = "infer"
    /\ Except("infer_json_schema")

\* lines 75-77: the lookup returns, its fields are merged, the schema is
\* returned through every _get_schema call on the stack.
SchemaLookupReturns ==
    /\ sg_pc = "lookup"
    /\ \E lookup \in SUBSET LookupFields :
           sg_schema' = MergeLookupFields(sg_schema, lookup)
    /\ sg_pc' = "returned"
    /\ UNCHANGED <<sg_frames, sg_failed, sg_exc>>

\* line 75: client.lookup raises.
SchemaLookupRaises ==
    /\ sg_pc = "lookup"
    /\ Except("lookup")

(***************************************************************************)
(* The XML-tree-to-record transform (client.py 29-39 and 232-243).        *)
(***************************************************************************)
(* An element is [tag, text, children]; its text is absent (None) or a      *)
(* sequence of characters.  A value is a scalar (its text), a mapping (its *)
(* items are the keys with their values, in insertion order) or a list     *)
(* (its items are the values, in order, under the key "").                 *)
(***************************************************************************)
VARIABLES
    x_data,         \* "node": the element; "data": the children of the
                    \* result/data nodes, in document order
    x_records,      \* what element_to_value / _parse_records returned
    x_pc            \* "node" -> "value", "data" -> "parsed"

xml_vars == <<x_data, x_records, x_pc>>

XmlIdle ==
    /\ x_data = <<>>
    /\ x_records = <<>>
    /\ x_pc = "idle"

NoText == [is_none |-> TRUE, chars |-> <<>>]
Text(chars) == [is_none |-> FALSE, chars |-> chars]
Node(tag, text, children) ==
    [tag |-> tag, text |-> text, children |-> children]

Scalar(chars) == [kind |-> "scalar", text |-> chars, items |-> <<>>]
Mapping(items) == [kind |-> "mapping", text |-> <<>>, items |-> items]
List(values) ==
    [kind |-> "list", text |-> <<>>,
     items |-> [i \in DOMAIN values |-> [key |-> "", value |-> values[i]]]]

\* `node.text or ""`
OrEmpty(text) == IF text.is_none THEN <<>> ELSE text.chars

\* str.strip(): the white space at both ends removed.
RECURSIVE Strip(_)
Strip(chars) ==
    IF chars = <<>> THEN <<>>
    ELSE IF Head(chars) = " " THEN Strip(Tail(chars))
    ELSE IF chars[Len(chars)] = " "
    THEN Strip(SubSeq(chars, 1, Len(chars) - 1))
    ELSE chars

RECURSIVE element_to_value(_)

RECURSIVE GroupedFirstOnly(_)
\* The grouping keeping, of the children sharing a tag, the first only.
GroupedFirstOnly(children) ==
    IF children = <<>> THEN <<>>
    ELSE LET rest == GroupedFirstOnly(SubSeq(children, 1, Len(children) - 1))
             child == children[Len(children)]
         IN  IF \E i \in DOMAIN rest : rest[i].key = child.tag
             THEN rest
             ELSE Append(rest, [key |-> child.tag,
                                values |-> <<element_to_value(child)>>])

RECURSIVE Grouped(_)
\* Lines 33-35: `grouped`, the values of the children by tag, the tags in
\* the order of their first child and the values in document order.
Grouped(children) ==
    IF children = <<>> THEN <<>>
    ELSE LET rest == Grouped(SubSeq(children, 1, Len(children) - 1))
             child == children[Len(children)]
             at == {i \in DOMAIN rest : rest[i].key = child.tag}
         IN  IF at = {}
             THEN Append(rest, [key |-> child.tag,
                                values |-> <<element_to_value(child)>>])
             ELSE [rest EXCEPT ![CHOOSE i \in at : TRUE].values =
                                   Append(@, element_to_value(child))]

\* client.element_to_value
element_to_value(node) ==
    IF node.children = <<>> THEN Scalar(Strip(OrEmpty(node.text)))
    ELSE LET grouped == Grouped(node.children) IN
         Mapping([i \in DOMAIN grouped |->
                    [key |-> grouped[i].key,
                     value |-> IF Len(grouped[i].values) = 1
                               THEN grouped[i].values[1]
                               ELSE List(grouped[i].values)]])

\* Line 236: the children _parse_records passes over.
SkippedTags == {"error", "warnings"}

\* IntacctClient._parse_records on the children of the result/data nodes:
\* the records, each a mapping.
RECURSIVE parse_records(_)
parse_records(data) ==
    IF data = <<>> THEN <<>>
    ELSE LET child == Head(data)
             value == element_to_value(child)
         IN  IF child.tag \in SkippedTags THEN parse_records(Tail(data))
             ELSE IF value.kind = "mapping"
             THEN <<value>> \o parse_records(Tail(data))
             ELSE <<Mapping(<<[key |-> child.tag, value |-> value]>>)>>
                      \o parse_records(Tail(data))

\* element_to_value applied to an element.
ApplyElementToValue ==
    /\ x_pc = "node"
    /\ x_pc' = "value"
    /\ x_records' = <<element_to_value(x_data[1])>>
    /\ UNCHANGED x_data

\* _parse_records returns.
ParseRecordsReturns ==
    /\ x_pc = "data"
    /\ x_pc' = "parsed"
    /\ x_records' = parse_records(x_data)
    /\ UNCHANGED x_data

\* The variables of the functions applied on their own.
fn_vars == <<date_vars, schema_vars, xml_vars>>

FnIdle == DateIdle /\ SchemaIdle /\ XmlIdle

(***************************************************************************)
(* read_records of the three kinds of stream build_streams creates         *)
(* (streams.py 252-311): a full-refresh stream, an incremental stream and  *)
(* ar_invoice_items with its fallback, from the call of entities() on.     *)
(***************************************************************************)
VARIABLES
    stream_kind,    \* "full_refresh", "incremental" or "ar_invoice_items"
    passes,         \* the entities a pass has been started for, in order
    calls,          \* the client calls of the current pass (full refresh)
                    \* or of its current slice, in order
    fallback,       \* the current slice is read by lines 208-222
    fb_error,       \* the error the except clause of line 203 let pass
    items           \* the stamped items of the current invoice still to yield

stream_vars == <<stream_kind, passes, calls, fallback, fb_error, items>>

StreamKinds == {"full_refresh", "incremental", "ar_invoice_items"}

NoError == [type |-> "none", msg |-> {}]

\* A client call of a pass: window is the slice whose bounds the query
\* carries, NoSlice for a query without modification-time bounds.
StreamCall(fn, object_name, entity_id, window) ==
    [fn |-> fn, object |-> object_name, entity_id |-> entity_id,
     window |-> window]

\* entities() without `or [None]`.
EntitiesAsFound(mode, ids, found) ==
    IF mode = "selected" THEN NonEmpty(ids) ELSE found

\* SageIntacctBaseStream.entities
Entities(mode, ids, found) ==
    IF mode = "selected" THEN NonEmpty(ids) ELSE OrNone(found)

\* No read_records call of a stream is running.
StreamIdle ==
    /\ stream_kind = "incremental"
    /\ passes = <<>>
    /\ calls = <<>>
    /\ fallback = FALSE
    /\ fb_error = NoError
    /\ items = <<>>

\* The entity of the pass in progress.
PassEntity == entities_list[ent_idx]

LogCall(fn, object_name, window) ==
    calls' = Append(calls, StreamCall(fn, object_name, PassEntity, window))

\* streams.py 87-91: entities() in mode "selected"; no client call.
EntitiesSelected ==
    /\ r_pc = "entities"
    /\ entities_mode = "selected"
    /\ entities_list' = Entities(entities_mode, entity_ids, discovered)
    /\ r_pc' = "entity"
    /\ UNCHANGED <<config, cursor_value, now, start, slices, s_pc, ent_idx,
                   stream_state, state_entities, self_state, time_slice,
                   max_seen, result, idx, pages, emitted, more_args,
                   observed, r_exc, server, entities_mode, entity_ids,
                   listing, discovered, stream_kind, passes, calls,
                   fallback, fb_error, items>>
    /\ UNCHANGED <<call_vars, state_vars, check_vars, resume_vars, fn_vars>>

\* streams.py 92-94: read_entity_details returns.
EntitiesDiscovered ==
    /\ r_pc = "entities"
    /\ entities_mode # "selected"
    /\ discovered' = ReadEntityDetails(listing)
    /\ entities_list' = Entities(entities_mode, entity_ids, discovered')
    /\ r_pc' = "entity"
    /\ UNCHANGED <<config, cursor_value, now, start, slices, s_pc, ent_idx,
                   stream_state, state_entities, self_state, time_slice,
                   max_seen, result, idx, pages, emitted, more_args,
                   observed, r_exc, server, entities_mode, entity_ids,
                   listing, stream_kind, passes, calls, fallback, fb_error,
                   items>>
    /\ UNCHANGED <<call_vars, state_vars, check_vars, resume_vars, fn_vars>>

\* streams.py 92: read_entity_details raises; read_records ends with it.
EntitiesRaises ==
    /\ r_pc = "entities"
    /\ entities_mode # "selected"
    /\ \E e \in CallExceptions : r_exc' = e
    /\ r_pc' = "failed"
    /\ UNCHANGED <<config, cursor_value, now, start, slices, s_pc,
                   entities_list, ent_idx, stream_state, state_entities,
                   self_state, time_slice, max_seen, result, idx, pages,
                   emitted, more_args, observed, server, entities_mode,
                   entity_ids, listing, discovered, stream_kind, passes,
                   calls, fallback, fb_error, items>>
    /\ UNCHANGED <<call_vars, state_vars, check_vars, resume_vars, fn_vars>>

\* The WHENMODIFIED texts of the records of a query without bounds.
FullWatermarks == {NoneStr, IsoStr(0), IsoStr(1), SrcStr(0)}

\* streams.py 105-107: the next entity of a full-refresh stream.
FullNextEntity ==
    /\ r_pc = "entity"
    /\ stream_kind = "full_refresh"
    /\ ent_idx <= Len(entities_list)
    /\ passes' = Append(passes, PassEntity)
    /\ calls' = <<>>
    /\ result' = NoResult
    /\ idx' = 1
    /\ pages' = <<>>
    /\ emitted' = <<>>
    /\ more_args' = <<>>
    /\ r_pc' = "full_query"
    /\ UNCHANGED <<config, cursor_value, now, start, slices, s_pc,
                   entities_list, ent_idx, stream_state, state_entities,
                   self_state, time_slice, max_seen, observed, r_exc,
                   server, entities_mode, entity_ids, listing, discovered,
                   stream_kind, fallback, fb_error, items>>
    /\ UNCHANGED <<call_vars, state_vars, check_vars, resume_vars, fn_vars>>

\* streams.py 158-160: the query "RECORDNO > 0" returns its first page.
FullQueryReturns ==
    /\ r_pc = "full_query"
    /\ \E n \in PageSizes :
       \E wms \in [1..n -> FullWatermarks] :
       \E token \in {0, 1} :
       \E num_remaining \in RemainingCounts :
           Receive(Page(wms, 1, token, num_remaining), token)
    /\ LogCall("readByQuery", "OBJECT", NoSlice)
    /\ r_pc' = "full_page"
    /\ UNCHANGED <<config, cursor_value, now, start, slices, s_pc,
                   entities_list, ent_idx, stream_state, state_entities,
                   self_state, time_slice, max_seen, emitted, more_args,
                   observed, r_exc, server, entities_mode, entity_ids,
                   listing, discovered, stream_kind, passes, fallback,
                   fb_error, items>>
    /\ UNCHANGED <<call_vars, state_vars, check_vars, resume_vars, fn_vars>>

\* streams.py 160: read_by_query raises.
FullQueryRaises ==
    /\ r_pc = "full_query"
    /\ LogCall("readByQuery", "OBJECT", NoSlice)
    /\ \E e \in CallExceptions : r_exc' = e
    /\ r_pc' = "failed"
    /\ UNCHANGED <<config, cursor_value, now, start, slices, s_pc,
                   entities_list, ent_idx, stream_state, state_entities,
                   self_state, time_slice, max_seen, result, idx, pages,
                   emitted, more_args, observed, server, entities_mode,
                   entity_ids, listing, discovered, stream_kind, passes,
                   fallback, fb_error, items>>
    /\ UNCHANGED <<call_vars, state_vars, check_vars, resume_vars, fn_vars>>

\* streams.py 161-163 / 166-168 and 107-108: the next record is stamped and
\* yielded.
FullYield ==
    /\ r_pc = "full_page"
    /\ idx <= Len(result.records)
    /\ emitted' = Append(emitted, Stamp(result.records[idx], PassEntity))
    /\ idx' = idx + 1
    /\ UNCHANGED <<config, cursor_value, now, start, slices, s_pc,
                   entities_list, ent_idx, stream_state, state_entities,
                   self_state, r_pc, time_slice, max_seen, result, pages,
                   more_args, observed, r_exc, server, entities_mode,
                   entity_ids, listing, discovered, stream_kind, passes,
                   calls, fallback, fb_error, items>>
    /\ UNCHANGED <<call_vars, state_vars, check_vars, resume_vars, fn_vars>>

\* streams.py 164-165: read_more returns the next page.
FullReadMoreReturns ==
    /\ r_pc = "full_page"
    /\ idx > Len(result.records)
    /\ ContinueCondition(result)
    /\ more_args' = Append(more_args, result.result_id)
    /\ LogCall("readMore", "", NoSlice)
    /\ \E n \in PageSizes :
       \E wms \in [1..n -> FullWatermarks] :
       \E token \in {0, Len(pages) + 1} :
       \E num_remaining \in RemainingCounts :
           Receive(Page(wms, Len(Received(pages)) + 1, token, num_remaining),
                   IF token # 0 THEN token ELSE result.result_id)
    /\ UNCHANGED <<config, cursor_value, now, start, slices, s_pc,
                   entities_list, ent_idx, stream_state, state_entities,
                   self_state, r_pc, time_slice, max_seen, emitted,
                   observed, r_exc, server, entities_mode, entity_ids,
                   listing, discovered, stream_kind, passes, fallback,
                   fb_error, items>>
    /\ UNCHANGED <<call_vars, state_vars, check_vars, resume_vars, fn_vars>>

\* streams.py 165: read_more raises.
FullReadMoreRaises ==
    /\ r_pc = "full_page"
    /\ idx > Len(result.records)
    /\ ContinueCondition(result)
    /\ more_args' = Append(more_args, result.result_id)
    /\ LogCall("readMore", "", NoSlice)
    /\ \E e \in CallExceptions : r_exc' = e
    /\ r_pc' = "failed"
    /\ UNCHANGED <<config, cursor_value, now, start, slices, s_pc,
                   entities_list, ent_idx, stream_state, state_entities,
                   self_state, time_slice, max_seen, result, idx, pages,
                   emitted, observed, server, entities_mode, entity_ids,
                   listing, discovered, stream_kind, passes, fallback,
                   fb_error, items>>
    /\ UNCHANGED <<call_vars, state_vars, check_vars, resume_vars, fn_vars>>

\* streams.py 164 and 106: the while loop ends, on to the next entity.
FullDrained ==
    /\ r_pc = "full_page"
    /\ SliceDrained(result, idx)
    /\ ent_idx' = ent_idx + 1
    /\ r_pc' = "entity"
    /\ UNCHANGED <<config, cursor_value, now, start, slices, s_pc,
                   entities_list, stream_state, state_entities, self_state,
                   time_slice, max_seen, result, idx, pages, emitted,
                   more_args, observed, r_exc, server, entities_mode,
                   entity_ids, listing, discovered, stream_kind, passes,
                   calls, fallback, fb_error, items>>
    /\ UNCHANGED <<call_vars, state_vars, check_vars, resume_vars, fn_vars>>

\* streams.py 112-117: the next entity of an incremental stream.
IncNextEntity ==
    /\ stream_kind # "full_refresh"
    /\ NextEntity
    /\ passes' = Append(passes, PassEntity)
    /\ calls' = <<>>
    /\ UNCHANGED <<stream_kind, fallback, fb_error, items>>
    /\ UNCHANGED <<state_vars, check_vars, dir_vars, resume_vars, fn_vars>>

\* streams.py 117-119: the next slice starts in the try block of line 200.
IncNextSlice ==
    /\ NextSlice
    /\ calls' = <<>>
    /\ fallback' = FALSE
    /\ fb_error' = NoError
    /\ UNCHANGED <<stream_kind, passes, items>>
    /\ UNCHANGED <<state_vars, check_vars, dir_vars, resume_vars, fn_vars>>

\* streams.py 171-173: the filtered query of the slice returns.
IncReadByQueryReturns ==
    /\ ReadByQueryReturns
    /\ LogCall("readByQuery", "OBJECT", time_slice)
    /\ UNCHANGED <<stream_kind, passes, fallback, fb_error, items>>
    /\ UNCHANGED <<state_vars, check_vars, dir_vars, resume_vars, fn_vars>>

\* streams.py 173: the filtered query raises out of a base stream.
BaseReadByQueryRaises ==
    /\ stream_kind = "incremental"
    /\ ReadByQueryRaises
    /\ LogCall("readByQuery", "OBJECT", time_slice)
    /\ UNCHANGED <<stream_kind, passes, fallback, fb_error, items>>
    /\ UNCHANGED <<state_vars, check_vars, dir_vars, resume_vars, fn_vars>>

\* streams.py 177-178: the continuation call returns.
IncReadMoreReturns ==
    /\ ReadMoreReturns
    /\ LogCall("readMore", "", time_slice)
    /\ UNCHANGED <<stream_kind, passes, fallback, fb_error, items>>
    /\ UNCHANGED <<state_vars, check_vars, dir_vars, resume_vars, fn_vars>>

\* streams.py 178: the continuation call raises out of a base stream.
BaseReadMoreRaises ==
    /\ stream_kind = "incremental"
    /\ ReadMoreRaises
    /\ LogCall("readMore", "", time_slice)
    /\ UNCHANGED <<stream_kind, passes, fallback, fb_error, items>>
    /\ UNCHANGED <<state_vars, check_vars, dir_vars, resume_vars, fn_vars>>

\* The words line 205 looks for in the lower-cased message of the error.
FieldWords == {"whenmodified", "field"}

IntacctErrorTypes ==
    {"IntacctError", "IntacctAuthError", "IntacctPermissionError",
     "IntacctTransientError"}

\* What a client call of a slice can raise: an IntacctError of any class,
\* whose message is the platform's text, or another exception.
SliceErrors ==
    [type : {"IntacctError"}, msg : {{}, {"whenmodified"}, {"field"}}]
    \cup [type : {"IntacctPermissionError", "IntacctAuthError"},
          msg : {{}, {"field"}}]
    \cup [type : {"IntacctTransientError", "Timeout", "ParseError"},
          msg : {{}}]

\* What a client call of the fallback path can raise; none is caught.
FallbackExceptions == {"IntacctError", "Timeout"}

\* streams.py 203-206: the except clause lets the error pass into the
\* fallback instead of re-raising it.
FallsBack(e) == e.type \in IntacctErrorTypes /\ e.msg \cap FieldWords # {}


\* lines 203-208: the error raised in the try block is re-raised, or the
\* fallback starts with the query of line 210.
SliceReadRaised(e) ==
    IF FallsBack(e)
    THEN /\ fallback' = TRUE
         /\ fb_error' = e
         /\ r_pc' = "fb_query"
         /\ result' = NoResult
         /\ idx' = 1
         /\ pages' = <<>>
         /\ UNCHANGED r_exc
    ELSE /\ r_exc' = e.type
         /\ r_pc' = "failed"
         /\ UNCHANGED <<fallback, fb_error, result, idx, pages>>

\* streams.py 201-206: the filtered query of ar_invoice_items raises.
ArReadByQueryRaises ==
    /\ r_pc = "query"
    /\ stream_kind = "ar_invoice_items"
    /\ LogCall("readByQuery", "OBJECT", time_slice)
    /\ \E e \in SliceErrors : SliceReadRaised(e)
    /\ UNCHANGED <<config, cursor_value, now, start, slices, s_pc,
                   entities_list, ent_idx, stream_state, state_entities,
                   self_state, time_slice, max_seen, emitted, more_args,
                   observed, server, entities_mode, entity_ids, listing,
                   discovered, stream_kind, passes, items>>
    /\ UNCHANGED <<call_vars, state_vars, check_vars, resume_vars, fn_vars>>

\* streams.py 201-206: a continuation call of ar_invoice_items raises.
ArReadMoreRaises ==
    /\ r_pc = "page"
    /\ stream_kind = "ar_invoice_items"
    /\ idx > Len(result.records)
    /\ ContinueCondition(result)
    /\ more_args' = Append(more_args, result.result_id)
    /\ LogCall("readMore", "", time_slice)
    /\ \E e \in SliceErrors : SliceReadRaised(e)
    /\ UNCHANGED <<config, cursor_value, now, start, slices, s_pc,
                   entities_list, ent_idx, stream_state, state_entities,
                   self_state, time_slice, max_seen, emitted, observed,
                   server, entities_mode, entity_ids, listing, discovered,
                   stream_kind, passes, items>>
    /\ UNCHANGED <<call_vars, state_vars, check_vars, resume_vars, fn_vars>>

\* The WHENMODIFIED texts of the invoices the platform returns for a window.
InvoiceWatermarks(slice) == SliceWatermarks(slice) \ {NoneStr}

\* A page of ARINVOICE records with the fields RECORDNO and WHENMODIFIED;
\* RECORDNO 0 is an absent or empty key.
InvoicePage(wms, keyed, first_id, token, num_remaining) ==
    [records |-> [i \in 1..Len(wms) |->
                     [wm |-> wms[i], id |-> first_id + i - 1,
                      RECORDNO |-> IF keyed[i] THEN first_id + i - 1 ELSE 0]],
     token |-> token,
     num_remaining |-> num_remaining]

\* The items _extract_invoice_items finds in a full record, each with the
\* WHENMODIFIED it came with.
RawItems ==
    UNION {[1..n -> [wm : {NoneStr, IsoStr(0)}, id : {1}]] : n \in 0..2}

\* lines 233-235: INVOICE_RECORDNO, WHENMODIFIED and entity_id are set.
StampItem(item, invoice, entity_id) ==
    [wm |-> invoice.wm, id |-> item.id, entity_id |-> entity_id,
     INVOICE_RECORDNO |-> invoice.RECORDNO]

\* streams.py 208-216: the ARINVOICE query of the window returns.
FbQueryReturns ==
    /\ r_pc = "fb_query"
    /\ LogCall("readByQuery", "ARINVOICE", time_slice)
    /\ \E n \in PageSizes :
       \E wms \in [1..n -> InvoiceWatermarks(time_slice)] :
       \E keyed \in [1..n -> BOOLEAN] :
       \E token \in {0, 1} :
       \E num_remaining \in RemainingCounts :
           Receive(InvoicePage(wms, keyed, 1, token, num_remaining), token)
    /\ r_pc' = "fb_page"
    /\ UNCHANGED <<config, cursor_value, now, start, slices, s_pc,
                   entities_list, ent_idx, stream_state, state_entities,
                   self_state, time_slice, max_seen, emitted, more_args,
                   observed, r_exc, server, entities_mode, entity_ids,
                   listing, discovered, stream_kind, passes, fallback,
                   fb_error, items>>
    /\ UNCHANGED <<call_vars, state_vars, check_vars, resume_vars, fn_vars>>

\* streams.py 210: the ARINVOICE query raises, outside the try block.
FbQueryRaises ==
    /\ r_pc = "fb_query"
    /\ LogCall("readByQuery", "ARINVOICE", time_slice)
    /\ \E e \in FallbackExceptions : r_exc' = e
    /\ r_pc' = "failed"
    /\ UNCHANGED <<config, cursor_value, now, start, slices, s_pc,
                   entities_list, ent_idx, stream_state, state_entities,
                   self_state, time_slice, max_seen, result, idx, pages,
                   emitted, more_args, observed, server, entities_mode,
                   entity_ids, listing, discovered, stream_kind, passes,
                   fallback, fb_error, items>>
    /\ UNCHANGED <<call_vars, state_vars, check_vars, resume_vars, fn_vars>>

\* streams.py 226-228: an invoice without RECORDNO is passed over.
FbSkipInvoice ==
    /\ r_pc = "fb_page"
    /\ items = <<>>
    /\ idx <= Len(result.records)
    /\ result.records[idx].RECORDNO = 0
    /\ idx' = idx + 1
    /\ UNCHANGED <<config, cursor_value, now, start, slices, s_pc,
                   entities_list, ent_idx, stream_state, state_entities,
                   self_state, r_pc, time_slice, max_seen, result, pages,
                   emitted, more_args, observed, r_exc, server,
                   entities_mode, entity_ids, listing, discovered,
                   stream_kind, passes, calls, fallback, fb_error, items>>
    /\ UNCHANGED <<call_vars, state_vars, check_vars, resume_vars, fn_vars>>

\* streams.py 229-232: the full invoice is read and its items extracted.
FbReadReturns ==
    /\ r_pc = "fb_page"
    /\ items = <<>>
    /\ idx <= Len(result.records)
    /\ result.records[idx].RECORDNO # 0
    /\ LogCall("read", "ARINVOICE", time_slice)
    /\ \E raw \in RawItems :
           items' = [i \in 1..Len(raw) |->
                        StampItem(raw[i], result.records[idx], PassEntity)]
    /\ idx' = idx + 1
    /\ UNCHANGED <<config, cursor_value, now, start, slices, s_pc,
                   entities_list, ent_idx, stream_state, state_entities,
                   self_state, r_pc, time_slice, max_seen, result, pages,
                   emitted, more_args, observed, r_exc, server,
                   entities_mode, entity_ids, listing, discovered,
                   stream_kind, passes, fallback, fb_error>>
    /\ UNCHANGED <<call_vars, state_vars, check_vars, resume_vars, fn_vars>>

\* streams.py 229: client.read raises.
FbReadRaises ==
    /\ r_pc = "fb_page"
    /\ items = <<>>
    /\ idx <= Len(result.records)
    /\ result.records[idx].RECORDNO # 0
    /\ LogCall("read", "ARINVOICE", time_slice)
    /\ \E e \in FallbackExceptions : r_exc' = e
    /\ r_pc' = "failed"
    /\ UNCHANGED <<config, cursor_value, now, start, slices, s_pc,
                   entities_list, ent_idx, stream_state, state_entities,
                   self_state, time_slice, max_seen, result, idx, pages,
                   emitted, more_args, observed, server, entities_mode,
                   entity_ids, listing, discovered, stream_kind, passes,
                   fallback, fb_error, items>>
    /\ UNCHANGED <<call_vars, state_vars, check_vars, resume_vars, fn_vars>>

\* streams.py 236, 217-218 and 119-124: the next item is yielded and its
\* watermark tracked; a ValueError of parse_rfc3339 ends the run.
FbYieldItem ==
    /\ r_pc = "fb_page"
    /\ items # <<>>
    /\ LET seen == TrackMaxSeen(max_seen, Head(items).wm) IN
          IF seen.exc = "none"
          THEN /\ max_seen' = seen.val
               /\ emitted' = Append(emitted, Head(items))
               /\ items' = Tail(items)
               /\ UNCHANGED <<r_pc, r_exc>>
          ELSE /\ r_pc' = "failed"
               /\ r_exc' = seen.exc
               /\ UNCHANGED <<max_seen, emitted, items>>
    /\ UNCHANGED <<config, cursor_value, now, start, slices, s_pc,
                   entities_list, ent_idx, stream_state, state_entities,
                   self_state, time_slice, result, idx, pages, more_args,
                   observed, server, entities_mode, entity_ids, listing,
                   discovered, stream_kind, passes, calls, fallback,
                   fb_error>>
    /\ UNCHANGED <<call_vars, state_vars, check_vars, resume_vars, fn_vars>>

\* streams.py 219-220: the continuation call of the ARINVOICE query returns.
FbReadMoreReturns ==
    /\ r_pc = "fb_page"
    /\ items = <<>>
    /\ idx > Len(result.records)
    /\ ContinueCondition(result)
    /\ more_args' = Append(more_args, result.result_id)
    /\ LogCall("readMore", "", time_slice)
    /\ \E n \in PageSizes :
       \E wms \in [1..n -> InvoiceWatermarks(time_slice)] :
       \E keyed \in [1..n -> BOOLEAN] :
       \E token \in {0, Len(pages) + 1} :
       \E num_remaining \in RemainingCounts :
           Receive(InvoicePage(wms, keyed, Len(Received(pages)) + 1, token,
                               num_remaining),
                   IF token # 0 THEN token ELSE result.result_id)
    /\ UNCHANGED <<config, cursor_value, now, start, slices, s_pc,
                   entities_list, ent_idx, stream_state, state_entities,
                   self_state, r_pc, time_slice, max_seen, emitted,
                   observed, r_exc, server, entities_mode, entity_ids,
                   listing, discovered, stream_kind, passes, fallback,
                   fb_error, items>>
    /\ UNCHANGED <<call_vars, state_vars, check_vars, resume_vars, fn_vars>>

\* streams.py 220: the continuation call of the ARINVOICE query raises.
FbReadMoreRaises ==
    /\ r_pc = "fb_page"
    /\ items = <<>>
    /\ idx > Len(result.records)
    /\ ContinueCondition(result)
    /\ more_args' = Append(more_args, result.result_id)
    /\ LogCall("readMore", "", time_slice)
    /\ \E e \in FallbackExceptions : r_exc' = e
    /\ r_pc' = "failed"
    /\ UNCHANGED <<config, cursor_value, now, start, slices, s_pc,
                   entities_list, ent_idx, stream_state, state_entities,
                   self_state, time_slice, max_seen, result, idx, pages,
                   emitted, observed, server, entities_mode, entity_ids,
                   listing, discovered, stream_kind, passes, fallback,
                   fb_error, items>>
    /\ UNCHANGED <<call_vars, state_vars, check_vars, resume_vars, fn_vars>>

\* streams.py 219: the while loop of the fallback ends; read_records is at
\* line 125.
FbDrained ==
    /\ r_pc = "fb_page"
    /\ items = <<>>
    /\ SliceDrained(result, idx)
    /\ r_pc' = "page"
    /\ UNCHANGED <<config, cursor_value, now, start, slices, s_pc,
                   entities_list, ent_idx, stream_state, state_entities,
                   self_state, time_slice, max_seen, result, idx, pages,
                   emitted, more_args, observed, r_exc, server,
                   entities_mode, entity_ids, listing, discovered,
                   stream_kind, passes, calls, fallback, fb_error, items>>
    /\ UNCHANGED <<call_vars, state_vars, check_vars, resume_vars, fn_vars>>

\* The variables of the operations below the run of one stream.
ext_vars ==
    <<state_vars, dir_vars, check_vars, stream_vars, resume_vars, fn_vars>>

ExtIdle ==
    StateIdle /\ DirIdle /\ CheckIdle /\ StreamIdle /\ ResumeIdle /\ FnIdle

(***************************************************************************)
(* Specification SpecSlices: lines 116-117 of read_records for one entity, *)
(* over every configuration, prior cursor and clock value in the bounds.   *)
(***************************************************************************)
SliceCursors ==
    {NoneStr} \cup {IsoStr(t) : t \in 0..SliceMaxDay}
              \cup {SrcStr(t) : t \in {0, SliceMaxDay}}

SliceConfigs ==
    [start_date : {IsoStr(t) : t \in 0..SliceMaxStartDate},
     lookback_days : (-1)..SliceMaxLookback,
     slice_step_days : 1..SliceMaxStep]

SlicesInit ==
    /\ config \in SliceConfigs
    /\ cursor_value \in SliceCursors
    /\ now \in 0..SliceMaxDay
    /\ start = Returned(0)
    /\ slices = <<>>
    /\ s_pc = "input"
    /\ CallIdle
    /\ SyncIdle
    /\ ExtIdle

\* line 116: start = self._compute_start_time(cursor_value)
ApplyComputeStart ==
    /\ s_pc = "input"
    /\ start' = ComputeStartTime(config, cursor_value)
    /\ s_pc' = IF start'.exc = "none" THEN "started" ELSE "raised"
    /\ UNCHANGED <<config, cursor_value, now, slices>>
    /\ UNCHANGED <<call_vars, sync_vars, ext_vars>>

\* line 117: for time_slice in self._generate_slices(start, now)
ApplyGenerateSlices ==
    /\ s_pc = "started"
    /\ slices' = GenerateSlices(start.val, now, config.slice_step_days)
    /\ s_pc' = "sliced"
    /\ UNCHANGED <<config, cursor_value, now, start>>
    /\ UNCHANGED <<call_vars, sync_vars, ext_vars>>

slice_vars == <<config, cursor_value, now, start, slices, s_pc>>

vars == <<slice_vars, call_vars, sync_vars, ext_vars>>

SlicesNext == ApplyComputeStart \/ ApplyGenerateSlices

SpecSlices == SlicesInit /\ [][SlicesNext]_vars

(***************************************************************************)
(* Specification SpecCall: one client call, every response the transport   *)
(* can produce on each attempt.                                            *)
(***************************************************************************)
SlicesIdle ==
    /\ config = [start_date |-> IsoStr(0), lookback_days |-> 0,
                 slice_step_days |-> 1]
    /\ cursor_value = NoneStr
    /\ now = 0
    /\ start = Returned(0)
    /\ slices = <<>>
    /\ s_pc = "idle"

CallSpecInit == CallInit /\ SlicesIdle /\ SyncIdle /\ ExtIdle

CallNext ==
    \/ PostAny /\ UNCHANGED <<slice_vars, sync_vars, ext_vars>>
    \/ AttemptReturns /\ UNCHANGED <<slice_vars, sync_vars, ext_vars>>
    \/ AttemptRaises /\ UNCHANGED <<slice_vars, sync_vars, ext_vars>>
    \/ AttemptExhausted /\ UNCHANGED <<slice_vars, sync_vars, ext_vars>>
    \/ AttemptCaught /\ UNCHANGED <<slice_vars, sync_vars, ext_vars>>
    \/ Sleep /\ UNCHANGED <<slice_vars, sync_vars, ext_vars>>
    \/ CheckConnectionReturnsFalse /\ UNCHANGED <<slice_vars, sync_vars, ext_vars>>
    \/ CheckConnectionRaises /\ UNCHANGED <<slice_vars, sync_vars, ext_vars>>

SpecCall == CallSpecInit /\ [][CallNext]_vars

(***************************************************************************)
(* Specification SpecSync: one incremental read_records run, over every    *)
(* configuration, entity list and prior state in the bounds, each query    *)
(* answered with at most one record on at most two pages.                  *)
(***************************************************************************)
SyncCursors ==
    {NoneStr} \cup {IsoStr(t) : t \in 0..SyncMaxPrior} \cup {SrcStr(0)}

SyncConfigs ==
    [start_date : {IsoStr(0)},
     lookback_days : 0..SyncMaxLookback,
     slice_step_days : 1..SyncMaxStep]

\* lines 103-104 and 111: read_records is entered.
ReadRecordsEntered ==
    /\ state_entities = stream_state
    /\ self_state = [k \in EntityKeys |-> NoneStr]
    /\ ent_idx = 1
    /\ r_pc = "entity"
    /\ cursor_value = NoneStr
    /\ start = Returned(0)
    /\ slices = <<>>
    /\ s_pc = "idle"
    /\ time_slice = NoSlice
    /\ max_seen = NoneStr
    /\ result = NoResult
    /\ idx = 1
    /\ pages = <<>>
    /\ emitted = <<>>
    /\ more_args = <<>>
    /\ observed = [k \in EntityKeys |-> -1]
    /\ r_exc = "none"
    /\ CallIdle

SyncInit ==
    /\ config \in SyncConfigs
    /\ now \in 1..SyncMaxNow
    /\ entities_list \in EntityLists
    /\ stream_state \in [EntityKeys -> SyncCursors]
    /\ \A k \in EntityKeys \ IteratedKeys(entities_list) :
           stream_state[k] = NoneStr
    /\ server = [max_records |-> 1, max_pages |-> 2]
    /\ ReadRecordsEntered
    /\ ExtIdle

SyncNext ==
    \/ NextEntity /\ UNCHANGED ext_vars
    \/ EntitiesExhausted /\ UNCHANGED ext_vars
    \/ NextSlice /\ UNCHANGED ext_vars
    \/ SlicesExhausted /\ UNCHANGED ext_vars
    \/ ReadByQueryReturns /\ UNCHANGED ext_vars
    \/ ReadByQueryRaises /\ UNCHANGED ext_vars
    \/ YieldRecord /\ UNCHANGED ext_vars
    \/ ReadMoreReturns /\ UNCHANGED ext_vars
    \/ ReadMoreRaises /\ UNCHANGED ext_vars
    \/ Checkpoint /\ UNCHANGED ext_vars
    \/ SliceEndsUnwritten /\ UNCHANGED ext_vars

SpecSync == SyncInit /\ [][SyncNext]_vars

(***************************************************************************)
(* Specification SpecFrame: the same run given a prior state that holds    *)
(* cursors of entities the run does not iterate.                           *)
(***************************************************************************)
FrameInit ==
    /\ config = [start_date |-> IsoStr(0), lookback_days |-> 0,
                 slice_step_days |-> 1]
    /\ now \in 1..FrameMaxNow
    /\ entities_list \in {<<NoneEntity>>, <<"E1">>, <<"E1", "E2">>}
    /\ stream_state \in
           [EntityKeys -> {NoneStr} \cup {IsoStr(t) : t \in 0..SyncMaxPrior}]
    /\ server = [max_records |-> 1, max_pages |-> 2]
    /\ ReadRecordsEntered
    /\ ExtIdle

SpecFrame == FrameInit /\ [][SyncNext]_vars

(***************************************************************************)
(* Specification SpecDrain: the same run with one-day slices and queries   *)
(* of several records over several pages.                                  *)
(***************************************************************************)
DrainInit ==
    /\ config = [start_date |-> IsoStr(0), lookback_days |-> 0,
                 slice_step_days |-> 1]
    /\ now \in 1..DrainMaxNow
    /\ entities_list \in {<<NoneEntity>>, <<"E1", "E2">>}
    /\ stream_state \in [EntityKeys -> {NoneStr, IsoStr(0)}]
    /\ \A k \in EntityKeys \ {EntityKey(entities_list[1])} :
           stream_state[k] = NoneStr
    /\ server = [max_records |-> DrainMaxRecords, max_pages |-> DrainMaxPages]
    /\ ReadRecordsEntered
    /\ ExtIdle

SpecDrain == DrainInit /\ [][SyncNext]_vars

(***************************************************************************)
(* Specification SpecState: any sequence of get_updated_state calls, from   *)
(* every state and with every record in the bounds.                        *)
(***************************************************************************)
StateInit ==
    /\ current_stream_state \in [EntityKeys -> StateCursors]
    /\ initial_state = current_stream_state
    /\ latest_record = NoRecord
    /\ fed_max = [k \in EntityKeys |-> -1]
    /\ g_pc = "call"
    /\ SlicesIdle /\ CallIdle /\ SyncIdle /\ DirIdle /\ CheckIdle
    /\ StreamIdle /\ ResumeIdle /\ FnIdle

StateNext ==
    \/ GetUpdatedStateReturns
         /\ UNCHANGED <<slice_vars, call_vars, sync_vars, dir_vars, check_vars,
                      stream_vars, resume_vars, fn_vars>>
    \/ GetUpdatedStateRaises
         /\ UNCHANGED <<slice_vars, call_vars, sync_vars, dir_vars, check_vars,
                      stream_vars, resume_vars, fn_vars>>

SpecState == StateInit /\ [][StateNext]_vars

(***************************************************************************)
(* Specification SpecCheck: one check_connection, over every directory     *)
(* listing and entity configuration in the bounds.                         *)
(***************************************************************************)
Listings ==
    UNION {[1..n -> DirRecords] : n \in 0..DirMaxRecords}

ConfiguredEntityIds ==
    {<<>>, <<"">>, <<"E1">>, <<"E2", "E1">>, <<"", "E2">>}

CheckInit ==
    /\ entities_mode \in {"all", "selected"}
    /\ IF entities_mode = "selected"
       THEN entity_ids \in ConfiguredEntityIds /\ listing = <<>>
       ELSE entity_ids = <<>> /\ listing \in Listings
    /\ discovered = <<>>
    /\ resolved = <<>>
    /\ k_pc = "resolve"
    /\ probe_idx = 1
    /\ probe_error = "none"
    /\ lookup_idx = 1
    /\ k_calls = <<>>
    /\ k_exc = "none"
    /\ k_result = "pending"
    /\ SlicesIdle /\ CallIdle /\ SyncIdle /\ StateIdle /\ StreamIdle
    /\ ResumeIdle /\ FnIdle

CheckNext ==
    \/ ResolveSelected
         /\ UNCHANGED <<slice_vars, call_vars, sync_vars, state_vars, stream_vars,
                      resume_vars, fn_vars>>
    \/ ResolveDiscovered
         /\ UNCHANGED <<slice_vars, call_vars, sync_vars, state_vars, stream_vars,
                      resume_vars, fn_vars>>
    \/ ResolveRaises
         /\ UNCHANGED <<slice_vars, call_vars, sync_vars, state_vars, stream_vars,
                      resume_vars, fn_vars>>
    \/ ProbeReturns
         /\ UNCHANGED <<slice_vars, call_vars, sync_vars, state_vars, stream_vars,
                      resume_vars, fn_vars>>
    \/ ProbeDenied
         /\ UNCHANGED <<slice_vars, call_vars, sync_vars, state_vars, stream_vars,
                      resume_vars, fn_vars>>
    \/ ProbeRaises
         /\ UNCHANGED <<slice_vars, call_vars, sync_vars, state_vars, stream_vars,
                      resume_vars, fn_vars>>
    \/ LookupReturns
         /\ UNCHANGED <<slice_vars, call_vars, sync_vars, state_vars, stream_vars,
                      resume_vars, fn_vars>>
    \/ LookupRaises
         /\ UNCHANGED <<slice_vars, call_vars, sync_vars, state_vars, stream_vars,
                      resume_vars, fn_vars>>

SpecCheck == CheckInit /\ [][CheckNext]_vars

(***************************************************************************)
(* Specification SpecStreams: one read_records call on a stream of each    *)
(* kind, with one-day slices, from the resolution of the entities on.      *)
(***************************************************************************)
EntityRecord(e) == [ENTITYID |-> e, LOCATIONID |-> "", ID |-> ""]

StreamListings ==
    {<<>>, <<EntityRecord("E1")>>, <<EntityRecord("E2"), EntityRecord("E1")>>}

StreamsInit ==
    /\ stream_kind \in StreamKinds
    /\ config = [start_date |-> IsoStr(0), lookback_days |-> 0,
                 slice_step_days |-> 1]
    /\ now \in 1..StreamMaxNow
    /\ entities_mode \in {"all", "selected"}
    /\ IF entities_mode = "selected"
       THEN entity_ids \in {<<>>, <<"E1">>, <<"", "E2">>} /\ listing = <<>>
       ELSE entity_ids = <<>> /\ listing \in StreamListings
    /\ discovered = <<>>
    /\ entities_list = <<>>
    /\ stream_state = [k \in EntityKeys |-> NoneStr]
    /\ server = [max_records |-> IF stream_kind = "ar_invoice_items"
                                 THEN 1 ELSE StreamMaxRecords,
                 max_pages |-> 2]
    /\ state_entities = stream_state
    /\ self_state = [k \in EntityKeys |-> NoneStr]
    /\ ent_idx = 1
    /\ r_pc = "entities"
    /\ cursor_value = NoneStr
    /\ start = Returned(0)
    /\ slices = <<>>
    /\ s_pc = "idle"
    /\ time_slice = NoSlice
    /\ max_seen = NoneStr
    /\ result = NoResult
    /\ idx = 1
    /\ pages = <<>>
    /\ emitted = <<>>
    /\ more_args = <<>>
    /\ observed = [k \in EntityKeys |-> -1]
    /\ r_exc = "none"
    /\ passes = <<>>
    /\ calls = <<>>
    /\ fallback = FALSE
    /\ fb_error = NoError
    /\ items = <<>>
    /\ CallIdle /\ StateIdle /\ CheckIdle /\ ResumeIdle /\ FnIdle

StreamsNext ==
    \/ EntitiesSelected
    \/ EntitiesDiscovered
    \/ EntitiesRaises
    \/ FullNextEntity
    \/ FullQueryReturns
    \/ FullQueryRaises
    \/ FullYield
    \/ FullReadMoreReturns
    \/ FullReadMoreRaises
    \/ FullDrained
    \/ IncNextEntity
    \/ IncNextSlice
    \/ IncReadByQueryReturns
    \/ BaseReadByQueryRaises
    \/ IncReadMoreReturns
    \/ BaseReadMoreRaises
    \/ ArReadByQueryRaises
    \/ ArReadMoreRaises
    \/ FbQueryReturns
    \/ FbQueryRaises
    \/ FbSkipInvoice
    \/ FbReadReturns
    \/ FbReadRaises
    \/ FbYieldItem
    \/ FbReadMoreReturns
    \/ FbReadMoreRaises
    \/ FbDrained
    \/ EntitiesExhausted /\ UNCHANGED <<stream_vars, state_vars, check_vars, dir_vars, resume_vars, fn_vars>>
    \/ SlicesExhausted /\ UNCHANGED <<stream_vars, state_vars, check_vars, dir_vars, resume_vars, fn_vars>>
    \/ YieldRecord /\ UNCHANGED <<stream_vars, state_vars, check_vars, dir_vars, resume_vars, fn_vars>>
    \/ Checkpoint /\ UNCHANGED <<stream_vars, state_vars, check_vars, dir_vars, resume_vars, fn_vars>>
    \/ SliceEndsUnwritten /\ UNCHANGED <<stream_vars, state_vars, check_vars, dir_vars, resume_vars, fn_vars>>

SpecStreams == StreamsInit /\ [][StreamsNext]_vars

(***************************************************************************)
(* Specification SpecResume: an incremental read_records run with one-day  *)
(* slices that is interrupted at any point, followed by a run started from *)
(* the state the first one committed last.  The platform holds the same    *)
(* records in both runs, answers every query with all the records of the   *)
(* window on one page, and raises no error.                                *)
(***************************************************************************)
\* The WHENMODIFIED texts of the records the platform can hold.
ResumeWatermarks ==
    {IsoStr(t) : t \in 0..(ResumeMaxNow - 1)}
        \cup {SrcStr(t) : t \in 0..(ResumeMaxNow - 1)}

\* _build_query: WHENMODIFIED >= start AND WHENMODIFIED < end, on the
\* platform's records.
ServedWatermarks(slice) ==
    {wm \in dataset : slice.start <= wm.t /\ wm.t < slice.end}

\* The variables of the operations that are neither a run nor a resumption.
rest_vars == <<state_vars, dir_vars, check_vars, stream_vars, fn_vars>>

\* line 173: read_by_query returns the records of the window the platform
\* holds, in any order, with none remaining.
ConsistentReadByQueryReturns ==
    /\ ReadByQueryReturns
    /\ result'.num_remaining = 0
    /\ Len(result'.records) = Cardinality(ServedWatermarks(time_slice))
    /\ {result'.records[i].wm : i \in 1..Len(result'.records)}
           = ServedWatermarks(time_slice)
    /\ UNCHANGED <<resume_vars, rest_vars>>

\* line 124: the record yielded reaches the caller.
ResumeYieldRecord ==
    /\ YieldRecord
    /\ delivered' = delivered \cup
           {[entity_id |-> emitted'[i].entity_id, wm |-> emitted'[i].wm] :
                i \in 1..Len(emitted')}
    /\ UNCHANGED <<run_no, dataset, first_run, rest_vars>>

\* The first run stops where it is, finished or not; read_records is
\* called again on a new stream object (line 50: _state = {}) with the
\* state last assigned at line 127, or the state the first run was given
\* when it assigned none, at a clock that has not gone back (lines 103-104
\* and 111).
Interrupt ==
    /\ run_no = 1
    /\ r_pc # "done"
    /\ run_no' = 2
    /\ \E n \in now..ResumeMaxNow : now' = n
    /\ stream_state' = state_entities
    /\ self_state' = [k \in EntityKeys |-> NoneStr]
    /\ ent_idx' = 1
    /\ r_pc' = "entity"
    /\ cursor_value' = NoneStr
    /\ start' = Returned(0)
    /\ slices' = <<>>
    /\ time_slice' = NoSlice
    /\ max_seen' = NoneStr
    /\ result' = NoResult
    /\ idx' = 1
    /\ pages' = <<>>
    /\ emitted' = <<>>
    /\ more_args' = <<>>
    /\ observed' = [k \in EntityKeys |-> -1]
    /\ r_exc' = "none"
    /\ UNCHANGED <<config, s_pc, entities_list, state_entities, server>>
    /\ UNCHANGED <<dataset, delivered, first_run>>
    /\ UNCHANGED <<call_vars, rest_vars>>

ResumeInit ==
    /\ config \in [start_date : {IsoStr(0)}, lookback_days : 0..1,
                    slice_step_days : {1}]
    /\ now \in 1..ResumeMaxNow
    /\ entities_list \in {<<NoneEntity>>, <<"E1", "E2">>}
    /\ stream_state \in [EntityKeys -> {NoneStr, IsoStr(1)}]
    /\ \A k \in EntityKeys \ {EntityKey(entities_list[1])} :
           stream_state[k] = NoneStr
    /\ server = [max_records |-> ResumeMaxRecords, max_pages |-> 1]
    /\ run_no = 1
    /\ dataset \in {d \in SUBSET ResumeWatermarks :
                        Cardinality(d) <= ResumeMaxRecords}
    /\ delivered = {}
    /\ first_run = [now |-> now, state |-> stream_state]
    /\ ReadRecordsEntered
    /\ StateIdle /\ DirIdle /\ CheckIdle /\ StreamIdle /\ FnIdle

ResumeNext ==
    \/ NextEntity /\ UNCHANGED <<resume_vars, rest_vars>>
    \/ EntitiesExhausted /\ UNCHANGED <<resume_vars, rest_vars>>
    \/ NextSlice /\ UNCHANGED <<resume_vars, rest_vars>>
    \/ SlicesExhausted /\ UNCHANGED <<resume_vars, rest_vars>>
    \/ ConsistentReadByQueryReturns
    \/ ResumeYieldRecord
    \/ Checkpoint /\ UNCHANGED <<resume_vars, rest_vars>>
    \/ SliceEndsUnwritten /\ UNCHANGED <<resume_vars, rest_vars>>
    \/ Interrupt

SpecResume == ResumeInit /\ [][ResumeNext]_vars

(***************************************************************************)
(* Specification SpecDates: an instant is formatted, in the platform's     *)
(* format or in the canonical one, and the text is parsed back.            *)
(***************************************************************************)
\* The variables of everything but the pure functions.
run_vars ==
    <<slice_vars, call_vars, sync_vars, state_vars, dir_vars, check_vars,
      stream_vars, resume_vars>>

RunIdle ==
    /\ SlicesIdle /\ CallIdle /\ SyncIdle /\ StateIdle /\ DirIdle
    /\ CheckIdle /\ StreamIdle /\ ResumeIdle

DatesInit ==
    /\ dt_value \in 0..DateMaxInstant
    /\ dt_text = NoneStr
    /\ dt_parsed = Returned(0)
    /\ dt_pc = "value"
    /\ RunIdle /\ SchemaIdle /\ XmlIdle

DatesNext ==
    \/ ApplyFormatQueryDt /\ UNCHANGED <<run_vars, schema_vars, xml_vars>>
    \/ ApplyToRfc3339 /\ UNCHANGED <<run_vars, schema_vars, xml_vars>>
    \/ ParseRfc3339Returns /\ UNCHANGED <<run_vars, schema_vars, xml_vars>>
    \/ ParseRfc3339Raises /\ UNCHANGED <<run_vars, schema_vars, xml_vars>>

SpecDates == DatesInit /\ [][DatesNext]_vars

(***************************************************************************)
(* Specification SpecSchema: one call of a stream's schema getter, every   *)
(* step of which returns or raises.                                        *)
(***************************************************************************)
SchemaInit ==
    /\ sg_frames = 1
    /\ sg_pc = "resolve"
    /\ sg_schema = NoSchema
    /\ sg_failed = <<>>
    /\ sg_exc = "none"
    /\ RunIdle /\ DateIdle /\ XmlIdle

SchemaNext ==
    \/ SchemaResolveReturns /\ UNCHANGED <<run_vars, date_vars, xml_vars>>
    \/ SchemaResolveRaises /\ UNCHANGED <<run_vars, date_vars, xml_vars>>
    \/ SchemaInferReturns /\ UNCHANGED <<run_vars, date_vars, xml_vars>>
    \/ SchemaInferRaises /\ UNCHANGED <<run_vars, date_vars, xml_vars>>
    \/ SchemaLookupReturns /\ UNCHANGED <<run_vars, date_vars, xml_vars>>
    \/ SchemaLookupRaises /\ UNCHANGED <<run_vars, date_vars, xml_vars>>

SpecSchema == SchemaInit /\ [][SchemaNext]_vars

\* The non-empty sequences over S of at most n elements.
SeqsUpTo(S, n) == UNION {[1..k -> S] : k \in 1..n}

XmlTexts ==
    {NoText, Text(<<>>), Text(<<" ">>), Text(<<"v">>),
     Text(<<" ", "w", " ">>), Text(<<"v", " ", "w">>)}

\* Elements without children.
XmlLeaves == {Node(tag, text, <<>>) : tag \in {"X", "Y"}, text \in XmlTexts}

XmlFields ==
    {Node(tag, text, <<>>) :
        tag \in {"X", "Y"}, text \in {Text(<<"v">>), Text(<<" ", "w", " ">>)}}

\* Elements with fields for children, with and without text of their own.
XmlGroups ==
    {Node(tag, text, children) :
        tag \in {"X", "Y"}, text \in {NoText, Text(<<"v">>)},
        children \in SeqsUpTo({Node("X", Text(<<"v">>), <<>>),
                               Node("X", Text(<<" ", "w", " ">>), <<>>)}, 2)}

\* The elements element_to_value is applied to.
XmlNodes ==
    XmlLeaves \cup
    {Node("customer", NoText, children) :
        children \in SeqsUpTo(XmlFields \cup XmlGroups, 3)}

\* The children of the result/data nodes.
DataChildren ==
    {Node("key", Text(<<" ", "w", " ">>), <<>>),
     Node("key", NoText, <<>>),
     Node("warnings", Text(<<"v">>), <<>>),
     Node("error", NoText, <<Node("X", Text(<<"v">>), <<>>)>>),
     Node("customer", NoText, <<Node("X", Text(<<"v">>), <<>>)>>),
     Node("customer", NoText, <<Node("X", Text(<<"v">>), <<>>),
                                Node("X", Text(<<" ", "w", " ">>), <<>>)>>),
     Node("customer", NoText, <<Node("X", Text(<<"v">>), <<>>),
                                Node("Y", Text(<<" ", "w", " ">>), <<>>)>>),
     Node("customer", Text(<<" ">>),
          <<Node("Y", NoText, <<Node("X", Text(<<"v">>), <<>>)>>)>>)}

XmlInit ==
    /\ \/ x_pc = "node" /\ x_data \in {<<node>> : node \in XmlNodes}
       \/ x_pc = "data" /\ x_data \in {<<>>} \cup SeqsUpTo(DataChildren,
                                                           XmlMaxChildren)
    /\ x_records = <<>>
    /\ RunIdle /\ DateIdle /\ SchemaIdle

XmlNext ==
    \/ ApplyElementToValue /\ UNCHANGED <<run_vars, date_vars, schema_vars>>
    \/ ParseRecordsReturns /\ UNCHANGED <<run_vars, date_vars, schema_vars>>

SpecXml == XmlInit /\ [][XmlNext]_vars

(***************************************************************************)
(* Claims on the start watermark and the slices (under SpecSlices).        *)
(***************************************************************************)
\* sl tiles [s, n) with pieces at most w wide: first piece starts at s, each
\* piece starts where the one before ended, none is empty, wider than w or
\* past n, and the last ends at n; nothing is produced when s >= n.
Tiles(sl, s, n, w) ==
    IF s >= n THEN sl = <<>>
    ELSE /\ Len(sl) >= 1
         /\ sl[1].start = s
         /\ sl[Len(sl)].end = n
         /\ \A i \in 1..Len(sl) :
                /\ sl[i].start < sl[i].end
                /\ sl[i].end - sl[i].start <= w
                /\ sl[i].end <= n
         /\ \A i \in 1..(Len(sl) - 1) : sl[i + 1].start = sl[i].end

\* C4: for every step width W >= 1 and every range, the slices produced by
\* _generate_slices exactly tile [start, now) (first starts at start, each
\* starts at the previous end, all non-empty, at most W wide, none past now,
\* the last ends at now), none is produced when start >= now, and start day 0
\* (2024-01-01), W = 7, now day 19 (2024-01-20) gives exactly the 3 slices
\* [0,7), [7,14), [14,19).
C4_SlicesTileRange ==
    s_pc = "sliced" =>
        /\ Tiles(slices, start.val, now, config.slice_step_days)
        /\ (start.val = 0 /\ now = 19 /\ config.slice_step_days = 7) =>
               slices = <<[start |-> 0, end |-> 7], [start |-> 7, end |-> 14],
                          [start |-> 14, end |-> 19]>>

\* The 2024-01-01 / 7 days / 2024-01-20 scenario has been sliced.
C4_Witness ==
    /\ s_pc = "sliced"
    /\ start.val = 0 /\ now = 19 /\ config.slice_step_days = 7
    /\ Len(slices) = 3

\* The start watermark the spec describes for a prior cursor.
SpecStart(cfg, cursor) ==
    IF ~Truthy(cursor) THEN cfg.start_date.t
    ELSE Max(cfg.start_date.t, cursor.t - cfg.lookback_days)

\* C5: the start watermark is the global start date when no prior cursor
\* exists, otherwise the later of the global start date and the prior cursor
\* minus the lookback, for every prior cursor; hence with a non-negative
\* lookback the first slice's start never precedes the global start date and
\* never exceeds a prior cursor that is at or after the global start date.
C5_StartWatermark ==
    s_pc # "input" =>
        /\ start.exc = "none"
        /\ start.val = SpecStart(config, cursor_value)
        /\ (config.lookback_days >= 0 /\ s_pc = "sliced" /\ slices # <<>>) =>
               /\ slices[1].start >= config.start_date.t
               /\ (Truthy(cursor_value)
                     /\ cursor_value.t >= config.start_date.t) =>
                      slices[1].start <= cursor_value.t

\* The same statement for the prior cursors parse_rfc3339 can read.
C5_StartWatermarkIsoCursor ==
    (s_pc # "input" /\ cursor_value.fmt # "src") =>
        /\ start.exc = "none"
        /\ start.val = SpecStart(config, cursor_value)
        /\ (config.lookback_days >= 0 /\ s_pc = "sliced" /\ slices # <<>>) =>
               /\ slices[1].start >= config.start_date.t
               /\ (Truthy(cursor_value)
                     /\ cursor_value.t >= config.start_date.t) =>
                      slices[1].start <= cursor_value.t

(***************************************************************************)
(* Claims on the incremental run (under SpecSync and SpecDrain).           *)
(***************************************************************************)
\* The instant a stored cursor denotes, -1 when none is stored.
CursorInstant(cursor) == IF Truthy(cursor) THEN cursor.t ELSE -1

\* The records received for the current query, as the caller gets them.
ReceivedStamped ==
    [i \in 1..Len(Received(pages)) |->
        Stamp(Received(pages)[i], entities_list[ent_idx])]

\* The last page received announces more records and a token to fetch them
\* with has been received.
MorePagesDue(pgs) ==
    /\ pgs # <<>>
    /\ pgs[Len(pgs)].num_remaining > 0
    /\ \E i \in 1..Len(pgs) : pgs[i].token # 0

\* C1: during an incremental run the cursor stored for an entity never
\* decreases: every checkpoint stores a value at or after the value stored
\* before it, the prior cursor of the sync start included, whatever the
\* slices return (slices without records included).
C1_CursorNeverDecreases ==
    [][\A k \in EntityKeys :
           Truthy(state_entities[k]) =>
               /\ Truthy(state_entities'[k])
               /\ state_entities'[k].t >= state_entities[k].t]_vars

\* C2: when an incremental run completes, the stored cursor of every entity
\* iterated is the maximum of its prior cursor and of every modification
\* value observed in its committed slices.
C2_FinalCursorIsMaximum ==
    r_pc = "done" =>
        \A k \in IteratedKeys(entities_list) :
            CursorInstant(state_entities[k])
                = Max(CursorInstant(stream_state[k]), observed[k])

ContinuesWith(token) ==
    /\ Len(more_args') = Len(more_args) + 1
    /\ more_args'[Len(more_args')] = token

\* What C6 asks of a step taken once the last page received is yielded.
DrainStep ==
    /\ (r_pc = "page" /\ idx > Len(result.records)
            /\ pages[Len(pages)].num_remaining > 0) =>
           ContinuesWith(pages[Len(pages)].token)
    /\ (r_pc = "page" /\ Len(more_args') > Len(more_args)) =>
           pages[Len(pages)].num_remaining > 0
    /\ (r_pc = "page" /\ r_pc' = "slice") =>
           /\ emitted = ReceivedStamped
           /\ pages[Len(pages)].num_remaining = 0

\* C6: pagination drain.  Whenever a page (first or continuation) reports
\* remaining_count > 0 the engine issues a continuation call carrying the
\* token of the most recently received page, until a page reports
\* remaining_count = 0, after which no continuation call is issued; the
\* records emitted for the query are the received pages' records in order.
C6_DrainUntilNoneRemain == [][DrainStep]_vars

\* Every page that announced more records carried a token.
TokensWhileRemaining(pgs) ==
    \A i \in 1..Len(pgs) : pgs[i].num_remaining > 0 => pgs[i].token # 0

\* The drain of C6 for the answers in which every page that reports
\* remaining_count > 0 carries a token.
C6_DrainWithTokens == [][TokensWhileRemaining(pages) => DrainStep]_vars

(***************************************************************************)
(* Claims on the protocol client (under SpecCall).                         *)
(***************************************************************************)
TypedErrors ==
    {"IntacctError", "IntacctAuthError", "IntacctPermissionError",
     "IntacctTransientError"}

\* The response was parsed: an HTTP answer below 400 with well-formed XML.
Parsed(resp) ==
    resp.kind = "http" /\ resp.status_code < 400 /\ resp.body.wf

\* A transient failure: connection or timeout error, HTTP 5xx, or a result
\* failing with timeout / temporarily-unavailable text.
TransientFailure(resp) ==
    \/ resp.kind \in {"Timeout", "ConnectionError"}
    \/ resp.kind = "http" /\ resp.status_code >= 500
    \/ Parsed(resp) /\ RaiseIfFailure(resp.body) = "IntacctTransientError"

\* A non-transient failure: HTTP 4xx, a control-block failure, an
\* authentication failure, a permission failure or an unclassified business
\* failure.
NonTransientFailure(resp) ==
    \/ resp.kind = "http" /\ resp.status_code >= 400 /\ resp.status_code < 500
    \/ Parsed(resp)
         /\ RaiseIfFailure(resp.body) \in
                {"IntacctError", "IntacctAuthError", "IntacctPermissionError"}

\* The attempt on `response` has been dealt with.
Handled == c_pc \in {"sleep", "returned", "raised"}

AllTransient(h) == \A i \in 1..Len(h) : h[i] = "transient"

DoublingDelays == <<1, 2, 4>>

\* C7: a call whose attempts fail transiently is re-attempted after delays of
\* 1, 2 and 4 seconds, makes at most 4 HTTP attempts, returns the first
\* successful response without a further attempt, and after a 4th transient
\* failure re-raises that failure without waiting again.
C7_BoundedRetry ==
    /\ posts <= MaxAttempts
    /\ Len(sleeps) <= Len(DoublingDelays)
    /\ sleeps = SubSeq(DoublingDelays, 1, Len(sleeps))
    /\ (Handled /\ TransientFailure(response)) =>
           /\ AllTransient(history) /\ Len(history) = posts
           /\ posts < MaxAttempts =>
                  (c_pc = "sleep" /\ Len(sleeps) = posts - 1)
           /\ posts = MaxAttempts =>
                  /\ c_pc = "raised"
                  /\ exc = AttemptOutcome(response)
                  /\ sleeps = DoublingDelays
    /\ c_pc = "post" => (Len(sleeps) = posts /\ AllTransient(history))
    /\ c_pc = "returned" =>
           /\ exc = "none"
           /\ history[Len(history)] = "ok"
           /\ AllTransient(SubSeq(history, 1, Len(history) - 1))
           /\ posts = Len(history)
           /\ Len(sleeps) = posts - 1

\* Four transient failures: three waits of 1, 2 and 4, then the re-raise.
C7_Witness ==
    /\ c_pc = "raised" /\ exc = "Timeout"
    /\ posts = MaxAttempts /\ sleeps = <<1, 2, 4>>

\* C8: an attempt that ends with a non-transient failure makes the call raise
\* right after that attempt, with no wait and no further HTTP request,
\* however many transient failures came before it.
C8_FatalNotRetried ==
    (Handled /\ NonTransientFailure(response)) =>
        /\ c_pc = "raised"
        /\ exc \in {"IntacctError", "IntacctAuthError",
                    "IntacctPermissionError"}
        /\ exc = AttemptOutcome(response)
        /\ history[Len(history)] = "fatal"
        /\ AllTransient(SubSeq(history, 1, Len(history) - 1))
        /\ posts = Len(history)
        /\ Len(sleeps) = posts - 1

\* A permission failure on the third attempt, after two transient failures.
C8_Witness ==
    /\ c_pc = "raised" /\ exc = "IntacctPermissionError"
    /\ posts = 3 /\ sleeps = <<1, 2>>

\* C9: every failure the client surfaces to its caller is a typed error
\* (an IntacctError); in particular an exhausted connection or timeout
\* failure and a malformed response surface as typed errors, so that
\* check_connection reports (False, description) and never raises.
C9_OnlyTypedErrors ==
    /\ c_pc = "raised" => exc \in TypedErrors
    /\ cc_result # "raised"

\* C10 as stated: a response whose authentication status is "failure" makes
\* the call raise IntacctAuthError and return no record, whatever its result
\* nodes hold.
C10_AuthFailureAlwaysAuthError ==
    (Handled /\ response.kind = "http" /\ response.body.wf
       /\ response.body.auth = "failure") =>
        (c_pc = "raised" /\ exc = "IntacctAuthError" /\ records = 0)

\* C10 as amended: a parsed response (HTTP status below 400) whose control
\* block reports no failure and whose authentication status is "failure"
\* makes the call raise IntacctAuthError and return no record, whatever the
\* number, status and content of its result nodes.
C10_AuthFailureRaisesAuthError ==
    (Handled /\ Parsed(response) /\ ~IsFailure(response.body.control)
       /\ response.body.auth = "failure") =>
        (c_pc = "raised" /\ exc = "IntacctAuthError" /\ records = 0)

\* An authentication failure beside a result that succeeded with data and a
\* result that failed for lack of permission.
C10_Witness ==
    /\ c_pc = "raised" /\ exc = "IntacctAuthError"
    /\ response.body.auth = "failure"
    /\ Len(response.body.results) = 2
    /\ response.body.results[1].data
    /\ response.body.results[2].status = "failure"
    /\ "permission" \in response.body.results[2].msg

\* Some result node of the document failed with permission-indicating text
\* or with the permission code WSP001.
PermissionNode(node) ==
    /\ IsFailure(node.status)
    /\ ("permission" \in node.msg \/ node.errorno = "WSP001")

FailingNodes(results) ==
    {i \in 1..Len(results) : IsFailure(results[i].status)}

\* C11 as stated: an HTTP response whose control and authentication blocks
\* report success and that holds a result node failing with permission text
\* or code WSP001 makes the call raise IntacctPermissionError.
C11_PermissionNodeAlwaysPermissionError ==
    (Handled /\ response.kind = "http" /\ response.body.wf
       /\ response.body.control = "success" /\ response.body.auth = "success"
       /\ \E i \in 1..Len(response.body.results) :
              PermissionNode(response.body.results[i])) =>
        (c_pc = "raised" /\ exc = "IntacctPermissionError")

\* C11 as amended: a parsed response (HTTP status below 400) whose control
\* and authentication blocks report no failure and whose first failing
\* result node carries permission text or code WSP001 makes the call raise
\* IntacctPermissionError with no retry and no record, whatever other text
\* that node's message holds and whatever the later result nodes hold.
C11_FirstFailingNodePermissionError ==
    (Handled /\ Parsed(response) /\ ~IsFailure(response.body.control)
       /\ ~IsFailure(response.body.auth)
       /\ FailingNodes(response.body.results) # {}
       /\ \A i \in FailingNodes(response.body.results) :
              (\A j \in FailingNodes(response.body.results) : i <= j) =>
                  PermissionNode(response.body.results[i])) =>
        /\ c_pc = "raised" /\ exc = "IntacctPermissionError"
        /\ records = 0
        /\ history[Len(history)] = "fatal"

\* Control and authentication succeeded, and the only result node failed
\* with a message that names both a permission and an authentication.
C11_Witness ==
    /\ c_pc = "raised" /\ exc = "IntacctPermissionError"
    /\ response.body.control = "success" /\ response.body.auth = "success"
    /\ Len(response.body.results) = 1
    /\ response.body.results[1].msg = {"permission", "authentication"}

(***************************************************************************)
(* Claims on get_updated_state (under SpecState).                          *)
(***************************************************************************)
\* What a call must leave behind: for every key the stored cursor denotes
\* the latest instant among the initial value and the cursors fed for that
\* key, no stored cursor moved back, only the record's own key changed (a
\* record without entity_id counts for "_root"), and a record without
\* cursor changed nothing.
StateTracksLatest ==
    /\ \A k \in EntityKeys :
           /\ CursorInstant(current_stream_state'[k]) =
                  Max(CursorInstant(initial_state[k]), fed_max'[k])
           /\ CursorInstant(current_stream_state'[k]) >=
                  CursorInstant(current_stream_state[k])
           /\ k # EntityKey(latest_record'.entity_id) =>
                  current_stream_state'[k] = current_stream_state[k]
    /\ ~Truthy(latest_record'.wm) =>
           current_stream_state' = current_stream_state

\* C12: every get_updated_state call returns, and after it the cursor stored
\* for entity E is the latest, as an instant, of the initial value and the
\* cursors of all records fed for E; it never regresses; the other entities'
\* cursors are unchanged; a record without entity updates "_root"; a record
\* without cursor value leaves the state unchanged.
C12_StateTracksLatest ==
    [][g_pc' = "call" /\ StateTracksLatest]_vars

\* The same for the calls whose stored and fed cursors are both ISO strings
\* whenever both are present.
C12_StateTracksLatestIso ==
    [][LET k == EntityKey(latest_record'.entity_id) IN
       ~(/\ Truthy(latest_record'.wm) /\ Truthy(current_stream_state[k])
         /\ (ParseRaises(latest_record'.wm)
               \/ ParseRaises(current_stream_state[k])))
       => (g_pc' = "call" /\ StateTracksLatest)]_vars

(***************************************************************************)
(* Claims on entity discovery and check_connection (under SpecCheck).      *)
(***************************************************************************)
\* check_connection's read_entity_details call returned.
DiscoveryReturned ==
    /\ k_pc # "resolve"
    /\ entities_mode = "all"
    /\ ~(Len(k_calls) = 1 /\ k_exc # "none")

ProbeQueries == {i \in 1..Len(k_calls) : k_calls[i].fn = "readByQuery"}

\* C16: in mode "all", when the directory listing returns no entity,
\* check_connection reports failure (False with a message) and issues no
\* probe query.
C16_EmptyDiscoveryFailsCheck ==
    (DiscoveryReturned /\ discovered = <<>>) =>
        (k_result = "false" /\ ProbeQueries = {})

\* What the code does instead: after an empty discovery the probe queries
\* run unscoped.
C16_EmptyDiscoveryProbesUnscoped ==
    (DiscoveryReturned /\ discovered = <<>>) =>
        /\ resolved = <<NoneEntity>>
        /\ k_pc = "probe" => k_result = "pending"
        /\ \A i \in ProbeQueries : k_calls[i].entity_id = NoneEntity

\* The identifiers a directory listing holds.
ListedIds(recs) == {EntityIdOf(recs[i]) : i \in 1..Len(recs)} \ {""}

Reversed(seq) == [i \in 1..Len(seq) |-> seq[Len(seq) + 1 - i]]

\* C18: for any directory-listing response, the list read_entity_details
\* returns holds each identifier of the listing exactly once, in ascending
\* order; the same records in reverse order, or each listed twice, give
\* the same list.
C18_DiscoverySortedUnique ==
    DiscoveryReturned =>
        /\ Elements(discovered) = ListedIds(listing)
        /\ \A i, j \in 1..Len(discovered) :
               i < j => EntityRank(discovered[i]) < EntityRank(discovered[j])
        /\ ReadEntityDetails(Reversed(listing)) = discovered
        /\ ReadEntityDetails(listing \o listing) = discovered

\* A listing that names E2 before E1 and E2 twice.
C18_Witness ==
    /\ DiscoveryReturned
    /\ Len(listing) = 3
    /\ EntityIdOf(listing[1]) = "E2" /\ EntityIdOf(listing[2]) = "E1"
    /\ EntityIdOf(listing[3]) = "E2" /\ listing[3].ENTITYID = ""
    /\ discovered = <<"E1", "E2">>

(***************************************************************************)
(* Claims on the streams (under SpecStreams).                              *)
(***************************************************************************)
CallsOf(fn, object_name) ==
    {i \in 1..Len(calls) : calls[i].fn = fn /\ calls[i].object = object_name}

\* The read of the current slice ended with an error that was propagated.
SliceReadAborted == r_pc = "failed" /\ ~fallback

\* The error is a protocol error about a field of the object, and not an
\* authentication, permission or transient error.
UnsupportedFieldError(e) ==
    e.type = "IntacctError" /\ e.msg \cap FieldWords # {}

\* C14: the fallback of ar_invoice_items is entered only when the filtered
\* query failed with an error saying that the modification-time field is
\* unsupported on the object; an authentication, permission or other error
\* raised while reading a slice is propagated, and no fallback query has
\* been issued when the stream aborts on it.
C14_FallbackOnlyOnUnsupportedField ==
    /\ fallback => UnsupportedFieldError(fb_error)
    /\ SliceReadAborted => CallsOf("readByQuery", "ARINVOICE") = {}

\* What the except clause does: the fallback is entered on every
\* IntacctError, of whatever class, whose message holds "whenmodified" or
\* "field"; every other error is propagated with no fallback query.
C14_FallbackOnFieldText ==
    /\ fallback => FallsBack(fb_error)
    /\ SliceReadAborted => CallsOf("readByQuery", "ARINVOICE") = {}
    /\ stream_kind # "ar_invoice_items" => ~fallback

\* The records of the fallback among a sequence of records.
IsItem(record) == "INVOICE_RECORDNO" \in DOMAIN record

KeyedInvoices(recs) == {i \in 1..Len(recs) : recs[i].RECORDNO # 0}

\* Every item emitted or about to be emitted comes from an invoice received
\* for the slice and carries that invoice's key and WHENMODIFIED, the entity
\* of the pass, and so a cursor value inside the slice.
ItemsStamped ==
    \A item \in {r \in Elements(emitted) : IsItem(r)} \cup Elements(items) :
        /\ item.entity_id = PassEntity
        /\ \E i \in KeyedInvoices(Received(pages)) :
               /\ item.INVOICE_RECORDNO = Received(pages)[i].RECORDNO
               /\ item.wm = Received(pages)[i].wm
        /\ Truthy(item.wm)
        /\ time_slice.start <= item.wm.t /\ item.wm.t < time_slice.end

\* The fallback has read all it reads for the slice; the checkpoint of the
\* slice is next.
FallbackEnded == fallback /\ r_pc = "page"

FallbackReadsParents ==
    /\ (fallback /\ r_pc \in {"fb_query", "fb_page", "page"}) => ItemsStamped
    /\ (fallback /\ r_pc \in {"fb_page", "page"}) =>
           /\ CallsOf("readByQuery", "ARINVOICE") # {}
           /\ \A i \in CallsOf("readByQuery", "ARINVOICE") :
                  /\ calls[i].window = time_slice
                  /\ calls[i].entity_id = PassEntity
    /\ FallbackEnded =>
           Cardinality(CallsOf("read", "ARINVOICE")) =
               Cardinality(KeyedInvoices(Received(pages)))

\* C15: on the fallback path the parent object is queried for the slice's
\* window and all its continuation pages are drained, until a page reports
\* that none remain; the full record of every returned parent key is read;
\* every item emitted carries the parent's key, the parent's modification
\* timestamp as its cursor value and the entity identifier, so its cursor
\* value lies inside the slice.
C15_FallbackDrainsParents ==
    /\ FallbackReadsParents
    /\ FallbackEnded => pages[Len(pages)].num_remaining = 0

\* The same for the answers in which every page that reports
\* remaining_count > 0 carries a token.
C15_FallbackDrainsParentsWithTokens ==
    /\ FallbackReadsParents
    /\ (FallbackEnded /\ TokensWhileRemaining(pages)) =>
           pages[Len(pages)].num_remaining = 0

\* read_entity_details returned to entities().
EntitiesDiscoveredInRun ==
    /\ entities_mode = "all"
    /\ r_pc # "entities"
    /\ ~(r_pc = "failed" /\ passes = <<>>)

\* A pass is in progress.
InPass == r_pc \notin {"entities", "entity", "done"} /\ passes # <<>>

\* C17: in mode "all", a sync whose discovery yields no entity makes exactly
\* one pass, with entity none: no call of it carries an entity, and only
\* the cursor of the sentinel key "_root" is written; a sync whose discovery
\* yields entities makes exactly one pass per discovered entity, in order.
C17_UnscopedPassOnEmptyDiscovery ==
    EntitiesDiscoveredInRun =>
        /\ entities_list =
               IF discovered = <<>> THEN <<NoneEntity>> ELSE discovered
        /\ Len(passes) <= Len(entities_list)
        /\ passes = SubSeq(entities_list, 1, Len(passes))
        /\ r_pc = "done" => passes = entities_list
        /\ InPass => /\ Len(passes) = ent_idx
                     /\ \A i \in 1..Len(calls) : calls[i].entity_id = PassEntity
        /\ discovered = <<>> =>
               /\ \A i \in 1..Len(passes) : passes[i] = NoneEntity
               /\ \A i \in 1..Len(calls) : calls[i].entity_id = NoneEntity
               /\ \A k \in EntityKeys \ {"_root"} :
                      state_entities[k] = stream_state[k]

\* An incremental sync that found no entity has made its one pass and
\* stored a cursor under "_root".
C17_Witness ==
    /\ stream_kind = "incremental"
    /\ EntitiesDiscoveredInRun /\ discovered = <<>>
    /\ r_pc = "done"
    /\ passes = <<NoneEntity>>
    /\ Truthy(self_state["_root"])

\* The passes of a full-refresh stream that have ended.
FullPassEnded ==
    stream_kind = "full_refresh" /\ r_pc \in {"entity", "done"} /\ passes # <<>>

FullRefreshQueries ==
    /\ stream_kind = "full_refresh" =>
           /\ state_entities = stream_state
           /\ self_state = [k \in EntityKeys |-> NoneStr]
           /\ passes = SubSeq(entities_list, 1, Len(passes))
           /\ \A i \in 1..Len(calls) :
                  /\ calls[i].window = NoSlice
                  /\ calls[i].fn = IF i = 1 THEN "readByQuery" ELSE "readMore"
           /\ r_pc = "done" => passes = entities_list
    /\ FullPassEnded =>
           /\ Cardinality(CallsOf("readByQuery", "OBJECT")) = 1
           /\ emitted = [i \in 1..Len(Received(pages)) |->
                            Stamp(Received(pages)[i], passes[Len(passes)])]

\* C19: a full-refresh stream issues exactly one query, without
\* modification-time bounds, per entity, drains its continuation pages
\* until a page reports that none remain, and leaves the cursor state of
\* every entity unchanged.
C19_FullRefreshDrains ==
    /\ FullRefreshQueries
    /\ FullPassEnded => pages[Len(pages)].num_remaining = 0

\* The same for the answers in which every page that reports
\* remaining_count > 0 carries a token.
C19_FullRefreshDrainsWithTokens ==
    /\ FullRefreshQueries
    /\ (FullPassEnded /\ TokensWhileRemaining(pages)) =>
           pages[Len(pages)].num_remaining = 0

\* C20: every record a stream emits, on the full-refresh path, for a first
\* page or a continuation page of an incremental slice, or on the fallback
\* path, carries the entity_id of the pass that produced it, the absent
\* marker in the unscoped pass.
C20_RecordsCarryPassEntity ==
    [][Len(emitted') > Len(emitted) =>
           /\ Len(emitted') = Len(emitted) + 1
           /\ SubSeq(emitted', 1, Len(emitted)) = emitted
           /\ emitted'[Len(emitted')].entity_id = entities_list[ent_idx]
           /\ entities_list[ent_idx] = passes[Len(passes)]]_vars

\* In the pass of E2, after a record of the filtered query was emitted, the
\* fallback has emitted an item.
C20_Witness ==
    /\ stream_kind = "ar_invoice_items" /\ fallback
    /\ passes = <<"E1", "E2">> /\ r_pc = "fb_page"
    /\ Len(emitted) = 2
    /\ ~IsItem(emitted[1]) /\ emitted[1].entity_id = "E2"
    /\ IsItem(emitted[2]) /\ emitted[2].entity_id = "E2"

(***************************************************************************)
(* Claims on the resumption of an interrupted run (under SpecResume).      *)
(***************************************************************************)
\* The start of the first run for the entity: _compute_start_time of the
\* cursor the first run was given.
FirstStart(entity_id) ==
    ComputeStartTime(config, first_run.state[EntityKey(entity_id)]).val

\* The second run has ended, by returning or by raising.
ResumedRunEnded == run_no = 2 /\ r_pc \in {"done", "failed"}

\* Every record the platform holds for an entity of the list, modified in
\* [start of the first run, now of the first run), has been yielded.
EveryRecordDelivered ==
    \A i \in 1..Len(entities_list) : \A wm \in dataset :
        (FirstStart(entities_list[i]) <= wm.t /\ wm.t < first_run.now)
            => [entity_id |-> entities_list[i], wm |-> wm] \in delivered

\* C13: when a run is interrupted at any point and a second run is started
\* from the last committed state with a non-negative lookback, every record
\* the platform holds in both runs with a modification time from the start
\* of the first run up to its now has been yielded at least once by the end
\* of the second run.
C13_ResumeEmitsEveryRecord == ResumedRunEnded => EveryRecordDelivered

\* The same, for a platform whose records carry ISO modification times.
C13_ResumeEmitsEveryIsoRecord ==
    (ResumedRunEnded /\ \A wm \in dataset : wm.fmt = "iso")
        => (r_pc = "done" /\ EveryRecordDelivered)

(***************************************************************************)
(* Claims on the date-time conversions (under SpecDates).                  *)
(***************************************************************************)
\* C21: a string in the platform's format, as format_query_dt writes it,
\* is parsed by parse_rfc3339 into the instant that was formatted.
C21_SourceFormatRoundTrip ==
    (dt_pc \in {"parsed", "raised"} /\ dt_text = format_query_dt(dt_value))
        => dt_parsed = Returned(dt_value)

\* The round trip through the canonical format.
C21_CanonicalRoundTrip ==
    (dt_pc \in {"parsed", "raised"} /\ dt_text = to_rfc3339(dt_value))
        => dt_parsed = Returned(dt_value)

(***************************************************************************)
(* Claims on the records a run emits (under SpecDrain).                    *)
(***************************************************************************)
\* The record is flat and its WHENMODIFIED, when present, is written in
\* the canonical format.
IsPrepared(record) ==
    /\ DOMAIN record = {"wm", "id", "entity_id"}
    /\ record.wm.fmt \in {"none", "iso"}

\* C22: every record a stream emits has been prepared: it is flat and its
\* modification cursor is rewritten from the platform's date-time format
\* into the canonical one.
C22_EmittedRecordsPrepared ==
    \A i \in 1..Len(emitted) : IsPrepared(emitted[i])

\* Every record emitted carries the WHENMODIFIED text the platform sent.
C22_EmittedAsReceived ==
    \A i \in 1..Len(emitted) :
        \E j \in 1..Len(Received(pages)) :
            /\ Received(pages)[j].id = emitted[i].id
            /\ Received(pages)[j].wm = emitted[i].wm

(***************************************************************************)
(* Claims on schema discovery (under SpecSchema).                          *)
(***************************************************************************)
\* C23: the schema getter never fails: it raises nothing, and the schema
\* it returns holds the three fixed fields; after a failure of a step it
\* is the fixed-field schema with the open catch-all.
C23_SchemaGetterNeverFails ==
    /\ sg_pc # "raised"
    /\ sg_pc = "returned" => FixedFields \subseteq sg_schema.properties
    /\ (sg_pc = "returned" /\ sg_failed # <<>>) => sg_schema = FixedSchema

\* Whatever the getter returns holds the three fixed fields and is open.
C23_ReturnedSchemaHasFixedFields ==
    sg_pc = "returned" =>
        /\ FixedFields \subseteq sg_schema.properties
        /\ sg_schema.additionalProperties

(***************************************************************************)
(* Claims on the classification of a response (under SpecCall).            *)
(***************************************************************************)
\* The class the priority order gives a failing result node.
NodeClass(node) ==
    CASE "permission" \in node.msg \/ node.errorno = "WSP001"
             -> "IntacctPermissionError"
      [] ~("permission" \in node.msg \/ node.errorno = "WSP001")
           /\ ("timeout" \in node.msg \/ "temporarily unavailable" \in node.msg)
             -> "IntacctTransientError"
      [] ~("permission" \in node.msg \/ node.errorno = "WSP001")
           /\ ~("timeout" \in node.msg \/ "temporarily unavailable" \in node.msg)
           /\ ("login" \in node.msg \/ "authentication" \in node.msg)
             -> "IntacctAuthError"
      [] OTHER -> "IntacctError"

\* The class the priority order gives a parsed document, "none" when no
\* block of it fails.
PriorityClass(root) ==
    CASE root.control = "failure" -> "IntacctError"
      [] root.control # "failure" /\ root.auth = "failure" -> "IntacctAuthError"
      [] root.control # "failure" /\ root.auth # "failure"
           /\ FailingNodes(root.results) # {} ->
             NodeClass(root.results[
                 CHOOSE i \in FailingNodes(root.results) :
                     \A j \in FailingNodes(root.results) : i <= j])
      [] OTHER -> "none"

\* C24: a parsed response is classified in a fixed priority order: control
\* failure (generic error) before authentication failure (authentication
\* error) before the first failing result node in document order, for
\* which permission text or code wins over timeout or unavailable text
\* (transient), which wins over login or authentication text, which wins
\* over the generic error; a response no block of which fails raises
\* nothing.  A transient class is retried and raised when the attempts are
\* used up, every other class is raised at once.
C24_ClassificationPriority ==
    (Handled /\ Parsed(response)) =>
        LET class == PriorityClass(response.body) IN
        /\ class = "none" => c_pc = "returned"
        /\ class = "IntacctTransientError" =>
               /\ history[Len(history)] = "transient"
               /\ c_pc \in {"sleep", "raised"}
               /\ c_pc = "raised" => exc = class
        /\ class \notin {"none", "IntacctTransientError"} =>
               (c_pc = "raised" /\ exc = class /\ history[Len(history)] = "fatal")

\* Two failing result nodes: the first names a timeout and a login, the
\* second a permission; the attempt counts as transient.
C24_Witness ==
    /\ c_pc = "sleep"
    /\ response.body.control = "success" /\ response.body.auth = "success"
    /\ Len(response.body.results) = 2
    /\ response.body.results[1].msg = {"timeout", "login"}
    /\ response.body.results[2].status = "failure"
    /\ "permission" \in response.body.results[2].msg

(***************************************************************************)
(* Claims on the order of the work within a run (under SpecDrain).         *)
(***************************************************************************)
\* No slice of the current entity has been started yet.
AtFirstSlice ==
    slices = GenerateSlices(start.val, now, config.slice_step_days)

\* The slice last started is over: every record of every page received
\* has been yielded, no further page is due, and the checkpoint of its
\* watermark, when it has one, is written.
SliceFinished ==
    /\ idx > Len(result.records)
    /\ Len(emitted) = Len(Received(pages))
    /\ ~MorePagesDue(pages)
    /\ Truthy(max_seen) =>
           /\ state_entities[EntityKey(entities_list[ent_idx])] = max_seen
           /\ self_state = state_entities

IsTrimOf(t, s) ==
    /\ \E i \in 0..Len(s) : \E j \in i..Len(s) :
           /\ t = SubSeq(s, i + 1, j)
           /\ \A k \in (1..i) \cup ((j + 1)..Len(s)) : s[k] = " "
    /\ t # <<>> => (t[1] # " " /\ t[Len(t)] # " ")

\* The children of node tagged tag, in document order.
Tagged(node, tag) ==
    LET HasTag(child) == child.tag = tag IN SelectSeq(node.children, HasTag)

\* value holds what node holds: the trimmed text of an element without
\* children; else a mapping with one key per tag of the children, under it
\* the value of the only child of that tag, or the list of the values of
\* all the children of that tag in document order.
RECURSIVE Holds(_, _)
Holds(node, value) ==
    IF node.children = <<>>
    THEN /\ value.kind = "scalar"
         /\ IsTrimOf(value.text, OrEmpty(node.text))
    ELSE /\ value.kind = "mapping"
         /\ \A i \in DOMAIN node.children :
                \E k \in DOMAIN value.items :
                    value.items[k].key = node.children[i].tag
         /\ \A k \in DOMAIN value.items :
                LET same == Tagged(node, value.items[k].key)
                    v == value.items[k].value
                IN  /\ same # <<>>
                    /\ \A l \in DOMAIN value.items :
                           value.items[l].key = value.items[k].key => l = k
                    /\ IF Len(same) = 1 THEN Holds(same[1], v)
                       ELSE /\ v.kind = "list"
                            /\ Len(v.items) = Len(same)
                            /\ \A j \in DOMAIN same :
                                   Holds(same[j], v.items[j].value)

\* record is the record of child: the mapping of a child with children as
\* it is, the scalar of a child without wrapped under the child's tag.
RecordOf(child, record) ==
    IF child.children # <<>> THEN Holds(child, record)
    ELSE /\ record.kind = "mapping"
         /\ Len(record.items) = 1
         /\ record.items[1].key = child.tag
         /\ Holds(child, record.items[1].value)

\* parsed holds one record for each of children, in their order.
OneRecordEach(children, parsed) ==
    /\ Len(parsed) = Len(children)
    /\ \A i \in DOMAIN children : RecordOf(children[i], parsed[i])

\* The children of the result/data nodes that are not passed over.
Kept ==
    LET IsKept(child) == child.tag \notin SkippedTags
    IN  SelectSeq(x_data, IsKept)

\* C26: the transform loses no data: the value of an element holds what
\* the element holds, and record parsing returns exactly one record for
\* every child of a result/data node, in document order.
C26_EveryChildOneRecord ==
    /\ x_pc = "value" => Holds(x_data[1], x_records[1])
    /\ x_pc = "parsed" => OneRecordEach(x_data, x_records)

\* C26 as the code has it: the value of an element holds what the element
\* holds, and record parsing returns exactly one record for every child of
\* a result/data node that is not tagged error or warnings, in document
\* order.
C26_EveryKeptChildOneRecord ==
    /\ x_pc = "value" => Holds(x_data[1], x_records[1])
    /\ x_pc = "parsed" => OneRecordEach(Kept, x_records)

\* A scalar child, a warnings child and a child with two fields of one tag
\* were parsed into two records.
C26_Witness ==
    /\ x_pc = "parsed"
    /\ Len(x_data) = 3
    /\ x_data[1].tag = "key" /\ ~x_data[1].text.is_none
    /\ x_data[2].tag = "warnings"
    /\ Len(x_data[3].children) = 2
    /\ x_data[3].children[1].tag = x_data[3].children[2].tag
    /\ Len(x_records) = 2

(***************************************************************************)
(* Claims on the two paths of ar_invoice_items (under SpecStreams).        *)
(***************************************************************************)
\* C27: within one slice of ar_invoice_items the records come from one
\* path only, all from the filtered query or all from the fallback over the
\* invoices, and the fallback is never running in a slice whose filtered
\* query has already yielded a record.
C27_OnePathPerSlice ==
    stream_kind = "ar_invoice_items" =>
        /\ \A i, j \in DOMAIN emitted :
               IsItem(emitted[i]) <=> IsItem(emitted[j])
        /\ fallback => \A i \in DOMAIN emitted : IsItem(emitted[i])

(***************************************************************************)
(* Claims on the entity list of a sync (under SpecStreams).                *)
(***************************************************************************)
\* entities() has returned the list read_records iterates.
EntitiesReturned ==
    /\ r_pc # "entities"
    /\ ~(r_pc = "failed" /\ passes = <<>>)

\* C28: the list read_records iterates is the list _resolve_entities gives
\* for the same configuration and discovery result, in either mode, and a
\* sync that ends has made a pass for at least one entity.
C28_EntitiesEqualResolveEntities ==
    EntitiesReturned =>
        /\ entities_list =
               ResolveEntities(entities_mode, entity_ids, discovered)
        /\ r_pc = "done" => passes # <<>>

\* The two lists are equal whenever the configuration selects an entity or
\* the entities are discovered.
C28_EqualUnlessNoneSelected ==
    (EntitiesReturned
        /\ ~(entities_mode = "selected" /\ NonEmpty(entity_ids) = <<>>)) =>
        /\ entities_list =
               ResolveEntities(entities_mode, entity_ids, discovered)
        /\ r_pc = "done" => passes # <<>>

(***************************************************************************)
(* Claims on what a checkpoint leaves alone (under SpecFrame).             *)
(***************************************************************************)
\* C29: a step of read_records that writes the cursor map writes the entry
\* of the entity being read and no other: in the map and in the state it
\* stores, the entry of every other entity is the one the map held before
\* the step, and the entry of an entity the run does not iterate is the
\* one of the prior state.
C29_CheckpointFrame ==
    [][(state_entities' # state_entities \/ self_state' # self_state) =>
           \A k \in EntityKeys \ {EntityKey(entities_list[ent_idx])} :
               /\ state_entities'[k] = state_entities[k]
               /\ self_state'[k] = state_entities[k]
               /\ k \notin IteratedKeys(entities_list) =>
                      self_state'[k] = stream_state[k]]_vars

\* A checkpoint of E1 was written by a run over E1 alone whose prior state
\* holds cursors of E2 and of the root as well; the stored state has them.
C29_Witness ==
    /\ r_pc = "slice"
    /\ entities_list = <<"E1">>
    /\ stream_state["E2"] = IsoStr(1)
    /\ stream_state["_root"] = IsoStr(0)
    /\ stream_state["E1"] = IsoStr(0)
    /\ self_state["E1"] = IsoStr(1)
    /\ self_state["E2"] = IsoStr(1)
    /\ self_state["_root"] = IsoStr(0)

====
